---- MODULE Spec2Model ----
(***************************************************************************)
(* A model of the static-site content compiler of this repository:        *)
(* scripts/build-content.mjs (front-matter parser, hand-rolled Markdown   *)
(* structurer, inline/block renderer, page assembler, corpus collector,   *)
(* atomic writes) and the attachment copy of script.js.                   *)
(*                                                                         *)
(* Text is modelled as a sequence of one-character strings, so that the   *)
(* regular expressions of the source are modelled by what they match.     *)
(***************************************************************************)
EXTENDS Integers, Sequences, FiniteSets, TLC

VARIABLES
    corpus,          \* the documents of the build, in discovery order
    docIndex,        \* number of documents buildPostHtml has been entered for
    pc,              \* "idle" (between documents) or "parsing" (inside parseMarkdown)
    lines,           \* parseMarkdown: the split lines of the current body
    i,               \* parseMarkdown: the 0-based line cursor
    introBlocks,     \* parseMarkdown: blocks before the first chapter
    chapters,        \* parseMarkdown: the chapters so far
    usedIds,         \* parseMarkdown: the anchor ids already assigned
    activeChapter,   \* parseMarkdown: 0 for null, else the index of the active chapter
    subsectionStack, \* parseMarkdown: the open subsections, outermost first
    pages,           \* the page written for each document compiled so far
    raw,             \* renderInline: the input text
    rendered,        \* renderInline: the result, once it has run
    source,          \* parseFrontMatter: the input text
    frontMatter,     \* parseFrontMatter: the result, once it has run
    listing,         \* collectPosts: the directory entries the two loops visit, in order
    asset,           \* copyStaticAssets: the outcome of reading an optional static asset
    rootRead,        \* collectPosts: the outcome of listing the categories root
    bpc,             \* main: the position of the build
    cursor,          \* collectPosts: number of entries of the listing visited so far
    posts,           \* collectPosts: the corpus index so far
    seenUrlPaths,    \* collectPosts: the url paths already published
    outputs,         \* the files the build has written, in order
    buildError,      \* the error that ended the build, "none" while there is none
    disk,            \* the files of the output directory, path -> content
    jobs,            \* the writes the build performs, in order
    writesDone,      \* number of writes completed
    wpc,             \* the position of the writer inside the current write
    chunksDone,      \* number of chunks of the current content written so far
    tempPath,        \* writeFileAtomic: the temporary path of the current write
    observed,        \* what the concurrent reader has read so far
    site,            \* script.js main: the post folders of the site, in visiting order
    spc,             \* script.js main: the position of the build
    visited,         \* script.js collectPosts: number of post folders visited so far
    pending,         \* copyPostAttachments: the entries still to be copied
    written,         \* the output paths written so far, each with the step that wrote it
    tocClasses,      \* TOC script: the class list of the .toc element
    ariaExpanded,    \* TOC script: the aria-expanded attribute of the toggle
    tocOpenTimer,    \* TOC script: the variable tocOpenTimer, 0 or a timer id
    timers,          \* TOC script: the ids of the timeouts pending in the window
    ticking,         \* TOC script: the variable ticking, an animation frame is requested
    timerCount,      \* TOC script: number of timeouts set so far
    maxScroll,       \* TOC script: tocPanel.scrollHeight - tocPanel.clientHeight
    scrollTop,       \* TOC script: tocPanel.scrollTop
    storedTheme,     \* theme script: the value of localStorage under the key theme
    storageOk,       \* theme script: whether localStorage can be read and written
    mediaMatches,    \* theme script: media.matches, the OS prefers a dark scheme
    dataTheme,       \* theme script: the data-theme attribute of the root element
    themeLog         \* theme script: the events so far, each with the theme applied after it

vars == <<corpus, docIndex, pc, lines, i, introBlocks, chapters, usedIds,
          activeChapter, subsectionStack, pages, raw, rendered, source, frontMatter,
          listing, asset, rootRead, bpc, cursor, posts, seenUrlPaths, outputs, buildError,
          disk, jobs, writesDone, wpc, chunksDone, tempPath, observed,
          site, spc, visited, pending, written,
          tocClasses, ariaExpanded, tocOpenTimer, timers, ticking, timerCount, maxScroll,
          scrollTop, storedTheme, storageOk, mediaMatches, dataTheme, themeLog>>

structVars == <<corpus, docIndex, pc, lines, i, introBlocks, chapters, usedIds,
                activeChapter, subsectionStack, pages>>
inlineVars == <<raw, rendered>>
fmVars == <<source, frontMatter>>
buildVars == <<listing, asset, rootRead, bpc, cursor, posts, seenUrlPaths, outputs,
               buildError>>
fileVars == <<disk, jobs, writesDone, wpc, chunksDone, tempPath, observed>>
siteVars == <<site, spc, visited, pending, written>>
tocVars == <<tocClasses, ariaExpanded, tocOpenTimer, timers, ticking, timerCount, maxScroll,
             scrollTop>>
themeVars == <<storedTheme, storageOk, mediaMatches, dataTheme, themeLog>>

(***************************************************************************)
(* Bounds of the model.                                                    *)
(***************************************************************************)
MaxLines == 3
MaxDocs == 3
MaxFrags == 3
MaxFmFrags == 5
MaxEntries == 3
MaxWrites == 2
MaxChunks == 2
MaxFolders == 2
MaxTimers == 3
MaxScroll == 4
MaxEvents == 4

(***************************************************************************)
(* Characters and strings.                                                 *)
(***************************************************************************)
UpperCase == <<"A","B","C","D","E","F","G","H","I","J","K","L","M",
               "N","O","P","Q","R","S","T","U","V","W","X","Y","Z">>
LowerCase == <<"a","b","c","d","e","f","g","h","i","j","k","l","m",
               "n","o","p","q","r","s","t","u","v","w","x","y","z">>
DigitChars == <<"0","1","2","3","4","5","6","7","8","9">>

\* The grave accent U+0060, the one character a TLA+ string cannot hold: it
\* is written as this token wherever the source has it (code fences and
\* inline code spans).
Grave == "GRAVE"

Range(f) == {f[x] : x \in DOMAIN f}

\* the regular-expression class \s
IsSpace(c) == c \in {" ", "\t", "\n", "\r", "\f"}
\* the regular-expression class \d
IsDigit(c) == c \in Range(DigitChars)

\* String.prototype.toLowerCase, one character
ToLowerChar(c) ==
    IF \E k \in 1..26 : UpperCase[k] = c
    THEN LowerCase[CHOOSE k \in 1..26 : UpperCase[k] = c]
    ELSE c

toLowerCase(s) == [k \in 1..Len(s) |-> ToLowerChar(s[k])]

RECURSIVE trimStart(_)
trimStart(s) == IF s # <<>> /\ IsSpace(Head(s)) THEN trimStart(Tail(s)) ELSE s

RECURSIVE trimEnd(_)
trimEnd(s) ==
    IF s # <<>> /\ IsSpace(s[Len(s)]) THEN trimEnd(SubSeq(s, 1, Len(s) - 1)) ELSE s

\* String.prototype.trim
trim(s) == trimEnd(trimStart(s))

startsWith(s, p) == Len(s) >= Len(p) /\ SubSeq(s, 1, Len(p)) = p

\* the rest of s from 1-based position k on
From(s, k) == SubSeq(s, k, Len(s))

\* String(n) for a natural number
RECURSIVE String(_)
String(n) == IF n < 10 THEN <<DigitChars[n + 1]>>
             ELSE String(n \div 10) \o <<DigitChars[(n % 10) + 1]>>

\* Array.prototype.join
RECURSIVE join(_, _)
join(parts, sep) ==
    IF parts = <<>> THEN <<>>
    ELSE IF Len(parts) = 1 THEN parts[1]
    ELSE parts[1] \o sep \o join(Tail(parts), sep)

\* the number of leading characters of s that satisfy the class given by set
RECURSIVE RunLength(_, _)
RunLength(s, set) ==
    IF s # <<>> /\ Head(s) \in set THEN 1 + RunLength(Tail(s), set) ELSE 0

SpaceChars == {" ", "\t", "\n", "\r", "\f"}

(***************************************************************************)
(* slugify                                                                 *)
(***************************************************************************)
SlugChars == Range(LowerCase) \cup Range(DigitChars) \cup SpaceChars \cup {"-"}

\* .replace(/\s+/g, '-'): every run of whitespace becomes one hyphen
RECURSIVE SpacesToHyphen(_)
SpacesToHyphen(s) ==
    IF s = <<>> THEN <<>>
    ELSE IF IsSpace(Head(s)) THEN <<"-">> \o SpacesToHyphen(trimStart(s))
    ELSE <<Head(s)>> \o SpacesToHyphen(Tail(s))

\* .replace(/-+/g, '-'): every run of hyphens becomes one hyphen
RECURSIVE CollapseHyphens(_)
CollapseHyphens(s) ==
    IF s = <<>> THEN <<>>
    ELSE IF Head(s) = "-" THEN <<"-">> \o CollapseHyphens(From(s, RunLength(s, {"-"}) + 1))
    ELSE <<Head(s)>> \o CollapseHyphens(Tail(s))

slugify(value) ==
    CollapseHyphens(SpacesToHyphen(trim(SelectSeq(toLowerCase(value),
                                                  LAMBDA c : c \in SlugChars))))

(***************************************************************************)
(* Line patterns of parseMarkdown (each applied to a trimmed line).        *)
(***************************************************************************)
\* /^(#{1,6})\s+(.+)$/ : the heading level, or 0 when the line is no heading
HeadingLevel(line) ==
    LET h == RunLength(line, {"#"})
    IN IF /\ h >= 1 /\ h <= 6
          /\ Len(line) > h
          /\ IsSpace(line[h + 1])
          /\ trimStart(From(line, h + 1)) # <<>>
       THEN h ELSE 0

\* heading[2].trim()
HeadingText(line) == trim(From(line, RunLength(line, {"#"}) + 1))

\* /^```/
IsFence(line) == startsWith(line, <<Grave, Grave, Grave>>)

\* /^-\s+/
IsUnordered(line) == Len(line) >= 2 /\ line[1] = "-" /\ IsSpace(line[2])

\* /^\d+\.\s+/
IsOrdered(line) ==
    LET d == RunLength(line, Range(DigitChars))
    IN d >= 1 /\ Len(line) >= d + 2 /\ line[d + 1] = "." /\ IsSpace(line[d + 2])

\* /^>\s?/
IsQuote(line) == line # <<>> /\ line[1] = ">"

\* /^#{1,6}\s+/
IsHeadingStart(line) ==
    LET h == RunLength(line, {"#"})
    IN h >= 1 /\ h <= 6 /\ Len(line) > h /\ IsSpace(line[h + 1])

\* isBoundary without its heading pattern
isBoundaryNoHeading(line) ==
    \/ IsUnordered(line)
    \/ IsOrdered(line)
    \/ IsQuote(line)
    \/ IsFence(line)

isBoundary(line) ==
    \/ IsHeadingStart(line)
    \/ IsUnordered(line)
    \/ IsOrdered(line)
    \/ IsQuote(line)
    \/ IsFence(line)

\* .replace(/^-\s+/, '')
StripUnordered(line) == trimStart(Tail(line))

\* .replace(/^\d+\.\s+/, '')
StripOrdered(line) ==
    IF IsOrdered(line)
    THEN trimStart(From(line, RunLength(line, Range(DigitChars)) + 2))
    ELSE line

\* .replace(/^>\s?/, '')
StripQuote(line) ==
    IF Len(line) >= 2 /\ IsSpace(line[2]) THEN From(line, 3) ELSE Tail(line)

normalizeChapterTitle(title) == trim(StripOrdered(title))

(***************************************************************************)
(* uniqueId                                                                *)
(***************************************************************************)
\* the loop of uniqueId left after its first iteration
NextFreeIdOnce(used, base, n) == base \o <<"-">> \o String(n)

\* the while loop of uniqueId, entered with id already in used
RECURSIVE NextFreeId(_, _, _)
NextFreeId(used, base, n) ==
    LET id == base \o <<"-">> \o String(n)
    IN IF id \in used THEN NextFreeId(used, base, n + 1) ELSE id

IdBase(prefix, text, fallback) ==
    prefix \o <<"-">> \o (IF slugify(text) # <<>> THEN slugify(text) ELSE fallback)

\* uniqueId without the lookup in usedIds
uniqueIdUnchecked(used, prefix, text, fallback) == IdBase(prefix, text, fallback)

uniqueId(used, prefix, text, fallback) ==
    LET base == IdBase(prefix, text, fallback)
    IN IF base \in used THEN NextFreeId(used, base, 2) ELSE base

ChapterWord == <<"c","h","a","p","t","e","r">>
SectionWord == <<"s","e","c","t","i","o","n">>

\* the prefix without the ordinal of the chapter
ChapterPrefixPlain(n) == ChapterWord

\* the prefix parseMarkdown passes for the chapter that is about to be created
ChapterPrefix(n) == ChapterWord \o <<"-">> \o String(n)

(***************************************************************************)
(* escapeHtml, escapeAttr and renderInline.                                *)
(*                                                                         *)
(* The markup renderInline itself emits is written as one element per tag  *)
(* (TagCodeOpen, ...), so that it can be told from the characters that     *)
(* come from the input.  No pattern of renderInline matches inside a tag   *)
(* it has emitted: the patterns only ask whether a character is a star, a  *)
(* bracket, a grave accent, whitespace, a digit or part of __CODE_.        *)
(***************************************************************************)
Amp == <<"&","a","m","p",";">>
Lt == <<"&","l","t",";">>
Gt == <<"&","g","t",";">>
Quot == <<"&","q","u","o","t",";">>
Apos == <<"&","#","3","9",";">>

TagCodeOpen == "<code>"
TagCodeClose == "</code>"
TagAOpen == "<a href=\""
TagAMid == "\">"
TagAClose == "</a>"
TagStrongOpen == "<strong>"
TagStrongClose == "</strong>"
TagEmOpen == "<em>"
TagEmClose == "</em>"

EmittedTags == {TagCodeOpen, TagCodeClose, TagAOpen, TagAMid, TagAClose,
                TagStrongOpen, TagStrongClose, TagEmOpen, TagEmClose}

\* String.prototype.replaceAll for a one-character pattern
RECURSIVE replaceAll(_, _, _)
replaceAll(s, ch, by) ==
    IF s = <<>> THEN <<>>
    ELSE (IF Head(s) = ch THEN by ELSE <<Head(s)>>) \o replaceAll(Tail(s), ch, by)

\* escapeHtml without the two quote characters
escapeHtmlNoQuotes(value) ==
    replaceAll(replaceAll(replaceAll(value, "&", Amp), "<", Lt), ">", Gt)

escapeHtml(value) ==
    replaceAll(replaceAll(replaceAll(replaceAll(replaceAll(value,
        "&", Amp), "<", Lt), ">", Gt), "\"", Quot), "'", Apos)

escapeAttr(value) == escapeHtml(value)

\* the number of leading characters of s that are not in set
RECURSIVE RunLengthNot(_, _)
RunLengthNot(s, set) ==
    IF s # <<>> /\ Head(s) \notin set THEN 1 + RunLengthNot(Tail(s), set) ELSE 0

CodeTokenHead == <<"_","_","C","O","D","E","_">>
CodeTokenTail == <<"_","_">>

\* `__CODE_${n}__`
CodeToken(n) == CodeTokenHead \o String(n) \o CodeTokenTail

\* /`([^`]+)`/ anchored at the start of s: the length of the match, or 0
CodeSpanMatch(s) ==
    IF s # <<>> /\ Head(s) = Grave
    THEN LET run == RunLengthNot(Tail(s), {Grave})
         IN IF run >= 1 /\ Len(s) >= run + 2 THEN run + 2 ELSE 0
    ELSE 0

\* escapeHtml(raw).replace(/`([^`]+)`/g, ...): the text with the code spans
\* replaced by their tokens, and the snippets pushed, n being codeSnippets.length
RECURSIVE ExtractCode(_, _)
ExtractCode(s, n) ==
    IF s = <<>> THEN [text |-> <<>>, codeSnippets |-> <<>>]
    ELSE LET m == CodeSpanMatch(s)
         IN IF m > 0
            THEN LET rest == ExtractCode(From(s, m + 1), n + 1)
                 IN [text |-> CodeToken(n) \o rest.text,
                     codeSnippets |->
                        << <<TagCodeOpen>> \o SubSeq(s, 2, m - 1) \o <<TagCodeClose>> >>
                        \o rest.codeSnippets]
            ELSE LET rest == ExtractCode(Tail(s), n)
                 IN [text |-> <<Head(s)>> \o rest.text,
                     codeSnippets |-> rest.codeSnippets]

HttpWord == <<"h","t","t","p">>
SchemeTail == <<":","/","/">>

\* /https?:\/\/[^\s)]+/ anchored at the start of s: the length of the match, or 0
HrefMatch(s) ==
    IF startsWith(s, HttpWord)
    THEN LET afterS == IF Len(s) >= 5 /\ s[5] = "s" THEN 5 ELSE 4
             run == RunLengthNot(From(s, afterS + 4), SpaceChars \cup {")"})
         IN IF startsWith(From(s, afterS + 1), SchemeTail) /\ run >= 1
            THEN afterS + 3 + run ELSE 0
    ELSE 0

\* /\[([^\]]+)\]\((https?:\/\/[^\s)]+)\)/ anchored at the start of s:
\* the lengths of the label and of the href, both 0 when there is no match
LinkMatch(s) ==
    LET none == [label |-> 0, href |-> 0]
    IN IF s # <<>> /\ Head(s) = "["
       THEN LET lab == RunLengthNot(Tail(s), {"]"})
            IN IF /\ lab >= 1
                  /\ Len(s) >= lab + 3
                  /\ s[lab + 2] = "]"
                  /\ s[lab + 3] = "("
               THEN LET h == HrefMatch(From(s, lab + 4))
                    IN IF h > 0 /\ Len(s) >= lab + 4 + h /\ s[lab + 4 + h] = ")"
                       THEN [label |-> lab, href |-> h]
                       ELSE none
               ELSE none
       ELSE none

\* escaped.replace(<link pattern>, (_m, label, href) => `<a href="${escapeAttr(href)}">${label}</a>`)
RECURSIVE ReplaceLinks(_)
ReplaceLinks(s) ==
    IF s = <<>> THEN <<>>
    ELSE LET m == LinkMatch(s)
         IN IF m.label > 0
            THEN <<TagAOpen>>
                 \o escapeAttr(SubSeq(s, m.label + 4, m.label + 3 + m.href))
                 \o <<TagAMid>> \o SubSeq(s, 2, m.label + 1) \o <<TagAClose>>
                 \o ReplaceLinks(From(s, m.label + m.href + 5))
            ELSE <<Head(s)>> \o ReplaceLinks(Tail(s))

\* /\*\*([^*]+)\*\*/ anchored at the start of s: the length of the match, or 0
BoldMatch(s) ==
    IF Len(s) >= 2 /\ s[1] = "*" /\ s[2] = "*"
    THEN LET run == RunLengthNot(From(s, 3), {"*"})
         IN IF run >= 1 /\ Len(s) >= run + 4 /\ s[run + 3] = "*" /\ s[run + 4] = "*"
            THEN run + 4 ELSE 0
    ELSE 0

\* withLinks.replace(/\*\*([^*]+)\*\*/g, '<strong>$1</strong>')
RECURSIVE ReplaceBold(_)
ReplaceBold(s) ==
    IF s = <<>> THEN <<>>
    ELSE LET m == BoldMatch(s)
         IN IF m > 0
            THEN <<TagStrongOpen>> \o SubSeq(s, 3, m - 2) \o <<TagStrongClose>>
                 \o ReplaceBold(From(s, m + 1))
            ELSE <<Head(s)>> \o ReplaceBold(Tail(s))

\* /\*([^*]+)\*/ anchored at the start of s: the length of the match, or 0
ItalicMatch(s) ==
    IF s # <<>> /\ s[1] = "*"
    THEN LET run == RunLengthNot(Tail(s), {"*"})
         IN IF run >= 1 /\ Len(s) >= run + 2 THEN run + 2 ELSE 0
    ELSE 0

\* withBold.replace(/\*([^*]+)\*/g, '<em>$1</em>')
RECURSIVE ReplaceItalic(_)
ReplaceItalic(s) ==
    IF s = <<>> THEN <<>>
    ELSE LET m == ItalicMatch(s)
         IN IF m > 0
            THEN <<TagEmOpen>> \o SubSeq(s, 2, m - 1) \o <<TagEmClose>>
                 \o ReplaceItalic(From(s, m + 1))
            ELSE <<Head(s)>> \o ReplaceItalic(Tail(s))

\* Number(index) for a string of digits
RECURSIVE Number(_)
Number(digits) ==
    IF digits = <<>> THEN 0
    ELSE 10 * Number(SubSeq(digits, 1, Len(digits) - 1))
         + (CHOOSE d \in 0..9 : DigitChars[d + 1] = digits[Len(digits)])

\* /__CODE_(\d+)__/ anchored at the start of s: the number of digits, or 0
CodeTokenMatch(s) ==
    IF startsWith(s, CodeTokenHead)
    THEN LET run == RunLength(From(s, 8), Range(DigitChars))
         IN IF run >= 1 /\ startsWith(From(s, 8 + run), CodeTokenTail) THEN run ELSE 0
    ELSE 0

\* withItalic.replace(/__CODE_(\d+)__/g, (_m, index) => codeSnippets[Number(index)] || '')
RECURSIVE RestoreCode(_, _)
RestoreCode(s, codeSnippets) ==
    IF s = <<>> THEN <<>>
    ELSE LET m == CodeTokenMatch(s)
         IN IF m > 0
            THEN LET index == Number(SubSeq(s, 8, 7 + m))
                 IN (IF index < Len(codeSnippets) THEN codeSnippets[index + 1] ELSE <<>>)
                    \o RestoreCode(From(s, m + 10), codeSnippets)
            ELSE <<Head(s)>> \o RestoreCode(Tail(s), codeSnippets)

renderInline(text) ==
    LET extracted == ExtractCode(escapeHtml(text), 0)
        withLinks == ReplaceLinks(extracted.text)
        withBold == ReplaceBold(withLinks)
        withItalic == ReplaceItalic(withBold)
    IN RestoreCode(withItalic, extracted.codeSnippets)

(***************************************************************************)
(* The documents of the model.  A body is the sequence of lines that       *)
(* markdown.replace(/\r\n/g, '\n').split('\n') yields.                     *)
(***************************************************************************)
LineBlank == <<>>
LineChapter == <<"#","#"," ","A">>
LineText == <<"t">>
LineSection == <<"#","#","#"," ","B">>
LineDeep == <<" ","#","#","#","#"," ","C">>
LineItem == <<"-"," ","i">>
LineOne == <<"1","."," ","o">>
LineQuote == <<">"," ","q">>
LineFence == <<Grave,Grave,Grave,"J">>
LineTop == <<"#"," ","T">>
LineBang == <<"#","#","#"," ","!">>
LineChapterBang == <<"#","#"," ","!">>
LineFive == <<"#","#","#","#","#"," ","E">>
LineChapterNumbered == <<"#","#"," ","7","."," ","N">>
LineChapterTwice == <<"#","#"," ","1","."," ","2","."," ","X">>

LineSet == {LineBlank, LineChapter, LineText, LineSection, LineDeep, LineItem,
            LineOne, LineQuote, LineFence, LineTop, LineBang}

\* every body of 1..n lines over LineSet
Bodies(n) == UNION {[1..k -> LineSet] : k \in 1..n}

\* the lines of the examples
LineFirst == <<"#","#"," ","F","i","r","s","t">>
LineTextWord == <<"t","e","x","t">>
LineOverview == <<"#","#","#"," ","O","v","e","r","v","i","e","w">>
LineOverview2 == <<"#","#","#"," ","O","v","e","r","v","i","e","w"," ","2">>

\* the bodies of the examples
FixedBodies ==
    { <<LineFirst, LineTextWord>>,
      <<LineFirst, LineOverview, LineOverview>>,
      <<LineOverview2, LineOverview, LineOverview>>,
      <<LineText, LineChapterBang, LineBang>>,
      <<LineChapter, LineSection, LineDeep, LineDeep, LineTop, LineFive, LineSection>>,
      <<LineChapterNumbered, LineChapter>>,
      <<LineChapterTwice>>,
      <<LineText, LineChapter, LineSection, LineChapter, LineSection, LineText>> }

\* the bodies that are compiled together, several in one build
SharedBodies ==
    { <<LineFirst, LineTextWord>>,
      <<LineFirst, LineOverview, LineOverview>> }

Corpora ==
    {<<b>> : b \in Bodies(MaxLines) \cup FixedBodies}
    \cup UNION {[1..k -> SharedBodies] : k \in 2..MaxDocs}

(***************************************************************************)
(* parseMarkdown                                                           *)
(***************************************************************************)
\* lines[i].trim()
CurrentLine == trim(lines[i + 1])

InLoop == pc = "parsing" /\ i < Len(lines)

\* every block pushed to the intro
pushBlockToIntro(intro, chaps, active, block) ==
    [introBlocks |-> Append(intro, block), chapters |-> chaps]

\* pushBlock: the intro blocks and the chapters after the push
pushBlock(intro, chaps, active, block) ==
    IF active # 0
    THEN [introBlocks |-> intro,
          chapters |-> [chaps EXCEPT ![active].blocks = Append(@, block)]]
    ELSE [introBlocks |-> Append(intro, block), chapters |-> chaps]

\* the stack left as it is
PopStackNever(stack, level) == stack

\* while (subsectionStack.length && top.level >= level) subsectionStack.pop()
RECURSIVE PopStack(_, _)
PopStack(stack, level) ==
    IF stack # <<>> /\ stack[Len(stack)].level >= level
    THEN PopStack(SubSeq(stack, 1, Len(stack) - 1), level)
    ELSE stack

\* parent.children.push(subsection), the parent being the node of the tree
\* that the stack entry refers to (ids identify nodes)
RECURSIVE AddChild(_, _, _)
AddChild(nodes, parentId, subsection) ==
    [k \in 1..Len(nodes) |->
        IF nodes[k].id = parentId
        THEN [nodes[k] EXCEPT !.children = Append(@, subsection)]
        ELSE [nodes[k] EXCEPT !.children = AddChild(@, parentId, subsection)]]

\* every subsection put at the top level of the tree
InsertSubsectionFlat(tree, stack, subsection) == Append(tree, subsection)

\* the subsection tree of the active chapter after a heading of level >= 3
InsertSubsection(tree, stack, subsection) ==
    LET popped == PopStack(stack, subsection.level)
    IN IF popped # <<>>
       THEN AddChild(tree, popped[Len(popped)].id, subsection)
       ELSE Append(tree, subsection)

\* parseMarkdown entered with the used ids of the document before
BeginDocumentSharedIds ==
    /\ pc = "idle"
    /\ docIndex < Len(corpus)
    /\ docIndex' = docIndex + 1
    /\ lines' = corpus[docIndex + 1]
    /\ i' = 0
    /\ introBlocks' = <<>>
    /\ chapters' = <<>>
    /\ activeChapter' = 0
    /\ subsectionStack' = <<>>
    /\ pc' = "parsing"
    /\ UNCHANGED <<corpus, usedIds, pages, inlineVars, fmVars, buildVars, fileVars,
                   siteVars, tocVars, themeVars>>

\* entry of buildPostHtml and of parseMarkdown for the next document
BeginDocument ==
    /\ pc = "idle"
    /\ docIndex < Len(corpus)
    /\ docIndex' = docIndex + 1
    /\ lines' = corpus[docIndex + 1]
    /\ i' = 0
    /\ introBlocks' = <<>>
    /\ chapters' = <<>>
    /\ usedIds' = {}
    /\ activeChapter' = 0
    /\ subsectionStack' = <<>>
    /\ pc' = "parsing"
    /\ UNCHANGED <<corpus, pages, inlineVars, fmVars, buildVars, fileVars,
                   siteVars, tocVars, themeVars>>

\* if (!line) { i += 1; continue; }
SkipBlank ==
    /\ InLoop
    /\ CurrentLine = <<>>
    /\ i' = i + 1
    /\ UNCHANGED <<corpus, docIndex, pc, lines, introBlocks, chapters, usedIds,
                   activeChapter, subsectionStack, pages, inlineVars, fmVars, buildVars, fileVars,
                   siteVars, tocVars, themeVars>>

\* a heading with level === 2
\* a fallback token that counts the lines from 0
SectionFallbackZeroBased(index) == String(index)

\* String(i + 1): the fallback token of a heading that is no chapter
SectionFallback(index) == String(index + 1)

\* String(chapters.length + 1): the fallback token of a chapter
ChapterFallback(count) == String(count + 1)

ChapterHeading ==
    /\ InLoop
    /\ HeadingLevel(CurrentLine) = 2
    /\ LET title == normalizeChapterTitle(HeadingText(CurrentLine))
           id == uniqueId(usedIds, ChapterPrefix(Len(chapters) + 1), title,
                          ChapterFallback(Len(chapters)))
       IN /\ usedIds' = usedIds \cup {id}
          /\ chapters' = Append(chapters,
                [title |-> title, id |-> id, blocks |-> <<>>, subsections |-> <<>>])
          /\ activeChapter' = Len(chapters) + 1
    /\ subsectionStack' = <<>>
    /\ i' = i + 1
    /\ UNCHANGED <<corpus, docIndex, pc, lines, introBlocks, pages, inlineVars, fmVars, buildVars, fileVars,
                   siteVars, tocVars, themeVars>>

\* a heading of any other level
OtherHeading ==
    /\ InLoop
    /\ HeadingLevel(CurrentLine) \notin {0, 2}
    /\ LET level == HeadingLevel(CurrentLine)
           text == HeadingText(CurrentLine)
           id == uniqueId(usedIds, SectionWord, text, SectionFallback(i))
           subsection == [id |-> id, level |-> level, title |-> text, children |-> <<>>]
           nested == activeChapter # 0 /\ level >= 3
           withTree ==
               IF nested
               THEN [chapters EXCEPT ![activeChapter].subsections =
                        InsertSubsection(@, subsectionStack, subsection)]
               ELSE chapters
           pushed == pushBlock(introBlocks, withTree, activeChapter,
                        [type |-> "heading", level |-> level, text |-> text, id |-> id])
       IN /\ usedIds' = usedIds \cup {id}
          /\ subsectionStack' =
                IF nested
                THEN Append(PopStack(subsectionStack, level), [id |-> id, level |-> level])
                ELSE subsectionStack
          /\ introBlocks' = pushed.introBlocks
          /\ chapters' = pushed.chapters
    /\ i' = i + 1
    /\ UNCHANGED <<corpus, docIndex, pc, lines, activeChapter, pages, inlineVars, fmVars, buildVars, fileVars,
                   siteVars, tocVars, themeVars>>

\* a line the paragraph loop absorbs: not blank and no boundary
Absorbed(line) == line # <<>> /\ ~isBoundary(line)

\* the tests of the inner while loops of parseMarkdown, by name
LineIs(test, line) ==
    CASE test = "notFence" -> ~IsFence(line)
      [] test = "unordered" -> IsUnordered(line)
      [] test = "ordered" -> IsOrdered(line)
      [] test = "quote" -> IsQuote(line)
      [] test = "absorbed" -> Absorbed(line)

\* the number of consecutive lines, from 1-based position k on, whose trimmed
\* text passes the test: the iterations of a loop
\*   while (i < lines.length && test(lines[i].trim())) i += 1
RunOfLines(ls, k, test) ==
    CHOOSE n \in 0..(Len(ls) + 1 - k) :
        /\ \A j \in k..(k + n - 1) : LineIs(test, trim(ls[j]))
        /\ k + n <= Len(ls) => ~LineIs(test, trim(ls[k + n]))

\* the lines of a fence pushed after lines[i].trim()
CodeLinesTrimmed(ls, from, n) == [k \in 1..n |-> trim(ls[from + k - 1])]

\* codeLines.push(lines[i]) for the n lines from 1-based position from on
CodeLines(ls, from, n) == SubSeq(ls, from, from + n - 1)

\* line.replace(/^```/, '').trim().toLowerCase()
FenceLang(line) == toLowerCase(trim(From(line, 4)))

\* an opening fence
CodeFence ==
    /\ InLoop
    /\ HeadingLevel(CurrentLine) = 0
    /\ IsFence(CurrentLine)
    /\ LET lang == FenceLang(CurrentLine)
           n == RunOfLines(lines, i + 2, "notFence")
           codeLines == CodeLines(lines, i + 2, n)
           closed == i + 1 + n < Len(lines)
           pushed == pushBlock(introBlocks, chapters, activeChapter,
                        [type |-> "code", lang |-> lang, code |-> join(codeLines, <<"\n">>)])
       IN /\ i' = IF closed THEN i + n + 2 ELSE i + n + 1
          /\ introBlocks' = pushed.introBlocks
          /\ chapters' = pushed.chapters
    /\ UNCHANGED <<corpus, docIndex, pc, lines, usedIds, activeChapter, subsectionStack,
                   pages, inlineVars, fmVars, buildVars, fileVars,
                   siteVars, tocVars, themeVars>>

\* an unordered list whose loop ends after its first line
UnorderedListSingle ==
    /\ InLoop
    /\ HeadingLevel(CurrentLine) = 0
    /\ ~IsFence(CurrentLine)
    /\ IsUnordered(CurrentLine)
    /\ LET pushed == pushBlock(introBlocks, chapters, activeChapter,
                        [type |-> "ul", items |-> <<StripUnordered(CurrentLine)>>])
       IN /\ i' = i + 1
          /\ introBlocks' = pushed.introBlocks
          /\ chapters' = pushed.chapters
    /\ UNCHANGED <<corpus, docIndex, pc, lines, usedIds, activeChapter, subsectionStack,
                   pages, inlineVars, fmVars, buildVars, fileVars,
                   siteVars, tocVars, themeVars>>

\* an unordered list
UnorderedList ==
    /\ InLoop
    /\ HeadingLevel(CurrentLine) = 0
    /\ ~IsFence(CurrentLine)
    /\ IsUnordered(CurrentLine)
    /\ LET n == RunOfLines(lines, i + 1, "unordered")
           items == [k \in 1..n |-> StripUnordered(trim(lines[i + k]))]
           pushed == pushBlock(introBlocks, chapters, activeChapter,
                        [type |-> "ul", items |-> items])
       IN /\ i' = i + n
          /\ introBlocks' = pushed.introBlocks
          /\ chapters' = pushed.chapters
    /\ UNCHANGED <<corpus, docIndex, pc, lines, usedIds, activeChapter, subsectionStack,
                   pages, inlineVars, fmVars, buildVars, fileVars,
                   siteVars, tocVars, themeVars>>

\* an ordered list whose loop tests for the marker of an unordered list
OrderedListWrongTest ==
    /\ InLoop
    /\ HeadingLevel(CurrentLine) = 0
    /\ ~IsFence(CurrentLine)
    /\ ~IsUnordered(CurrentLine)
    /\ IsOrdered(CurrentLine)
    /\ LET n == RunOfLines(lines, i + 1, "unordered")
           items == [k \in 1..n |-> StripOrdered(trim(lines[i + k]))]
           pushed == pushBlock(introBlocks, chapters, activeChapter,
                        [type |-> "ol", items |-> items])
       IN /\ i' = i + n
          /\ introBlocks' = pushed.introBlocks
          /\ chapters' = pushed.chapters
    /\ UNCHANGED <<corpus, docIndex, pc, lines, usedIds, activeChapter, subsectionStack,
                   pages, inlineVars, fmVars, buildVars, fileVars,
                   siteVars, tocVars, themeVars>>

\* an ordered list
OrderedList ==
    /\ InLoop
    /\ HeadingLevel(CurrentLine) = 0
    /\ ~IsFence(CurrentLine)
    /\ ~IsUnordered(CurrentLine)
    /\ IsOrdered(CurrentLine)
    /\ LET n == RunOfLines(lines, i + 1, "ordered")
           items == [k \in 1..n |-> StripOrdered(trim(lines[i + k]))]
           pushed == pushBlock(introBlocks, chapters, activeChapter,
                        [type |-> "ol", items |-> items])
       IN /\ i' = i + n
          /\ introBlocks' = pushed.introBlocks
          /\ chapters' = pushed.chapters
    /\ UNCHANGED <<corpus, docIndex, pc, lines, usedIds, activeChapter, subsectionStack,
                   pages, inlineVars, fmVars, buildVars, fileVars,
                   siteVars, tocVars, themeVars>>

\* a blockquote
Blockquote ==
    /\ InLoop
    /\ HeadingLevel(CurrentLine) = 0
    /\ ~IsFence(CurrentLine)
    /\ ~IsUnordered(CurrentLine)
    /\ ~IsOrdered(CurrentLine)
    /\ IsQuote(CurrentLine)
    /\ LET n == RunOfLines(lines, i + 1, "quote")
           quoteLines == [k \in 1..n |-> StripQuote(trim(lines[i + k]))]
           pushed == pushBlock(introBlocks, chapters, activeChapter,
                        [type |-> "blockquote", text |-> join(quoteLines, <<" ">>)])
       IN /\ i' = i + n
          /\ introBlocks' = pushed.introBlocks
          /\ chapters' = pushed.chapters
    /\ UNCHANGED <<corpus, docIndex, pc, lines, usedIds, activeChapter, subsectionStack,
                   pages, inlineVars, fmVars, buildVars, fileVars,
                   siteVars, tocVars, themeVars>>

\* a paragraph
Paragraph ==
    /\ InLoop
    /\ CurrentLine # <<>>
    /\ HeadingLevel(CurrentLine) = 0
    /\ ~IsFence(CurrentLine)
    /\ ~IsUnordered(CurrentLine)
    /\ ~IsOrdered(CurrentLine)
    /\ ~IsQuote(CurrentLine)
    /\ LET n == RunOfLines(lines, i + 2, "absorbed")
           paragraph == <<CurrentLine>> \o [k \in 1..n |-> trim(lines[i + 1 + k])]
           stop == i + 1 + n     \* the 0-based index of the line that ends the loop
           pushed == pushBlock(introBlocks, chapters, activeChapter,
                        [type |-> "p", text |-> join(paragraph, <<" ">>)])
       IN /\ i' = IF stop < Len(lines) /\ trim(lines[stop + 1]) = <<>>
                  THEN stop + 1 ELSE stop
          /\ introBlocks' = pushed.introBlocks
          /\ chapters' = pushed.chapters
    /\ UNCHANGED <<corpus, docIndex, pc, lines, usedIds, activeChapter, subsectionStack,
                   pages, inlineVars, fmVars, buildVars, fileVars,
                   siteVars, tocVars, themeVars>>

(***************************************************************************)
(* renderBlock and buildPostHtml.  A page is modelled by its elements, in  *)
(* document order, each with the attributes and the inner HTML the         *)
(* template gives it; the fixed text of the template is left out.          *)
(***************************************************************************)
Min(a, b) == IF a < b THEN a ELSE b
Max(a, b) == IF a > b THEN a ELSE b

NoChaptersLabel == <<"N","o"," ","c","h","a","p","t","e","r","s">>

renderBlock(block) ==
    CASE block.type = "p" ->
            [el |-> "p", html |-> renderInline(block.text)]
      [] block.type = "heading" ->
            [el |-> "h", level |-> Min(Max(block.level, 1), 4),
             id |-> escapeAttr(block.id), html |-> renderInline(block.text)]
      [] block.type = "ul" ->
            [el |-> "ul",
             items |-> [k \in 1..Len(block.items) |-> renderInline(block.items[k])]]
      [] block.type = "ol" ->
            [el |-> "ol",
             items |-> [k \in 1..Len(block.items) |-> renderInline(block.items[k])]]
      [] block.type = "blockquote" ->
            [el |-> "blockquote", html |-> renderInline(block.text)]
      [] block.type = "code" ->
            [el |-> "pre", langClass |-> escapeAttr(block.lang),
             html |-> escapeHtml(block.code)]

\* `${index + 1}. ${renderInline(chapter.title)}` or renderInline(chapter.title)
ChapterLabel(post, chapter, index) ==
    IF post.numberChapters
    THEN String(index) \o <<".", " ">> \o renderInline(chapter.title)
    ELSE renderInline(chapter.title)

\* one <section class="chapter"> of chapterHtml; index is 1-based
renderChapter(post, chapter, index) ==
    [el |-> "section", id |-> escapeAttr(chapter.id),
     h2 |-> ChapterLabel(post, chapter, index),
     blocks |-> [k \in 1..Len(chapter.blocks) |-> renderBlock(chapter.blocks[k])]]

\* the lines of the table of contents
TocOl(depth) == [t |-> "ol", n |-> depth, href |-> <<>>, label |-> <<>>]
TocOlEnd == [t |-> "/ol", n |-> 0, href |-> <<>>, label |-> <<>>]
TocLi(level) == [t |-> "li", n |-> level, href |-> <<>>, label |-> <<>>]
TocLiEnd == [t |-> "/li", n |-> 0, href |-> <<>>, label |-> <<>>]
TocA(id, label) == [t |-> "a", n |-> 0, href |-> <<"#">> \o id, label |-> label]

\* the entries of the nodes without those of their children
RECURSIVE RenderTocNodesFlat(_, _)
RenderTocNodesFlat(nodes, depth) ==
    IF nodes = <<>> THEN <<>>
    ELSE <<TocLi(Min(Head(nodes).level, 6)),
           TocA(escapeAttr(Head(nodes).id), renderInline(Head(nodes).title)),
           TocLiEnd>>
         \o RenderTocNodesFlat(Tail(nodes), depth)

RECURSIVE renderTocSubsections(_, _)
RECURSIVE RenderTocNodes(_, _)

\* the body of nodes.forEach in renderTocSubsections
RenderTocNodes(nodes, depth) ==
    IF nodes = <<>> THEN <<>>
    ELSE LET node == Head(nodes)
         IN <<TocLi(Min(node.level, 6)), TocA(escapeAttr(node.id), renderInline(node.title))>>
            \o (IF node.children # <<>>
                THEN renderTocSubsections(node.children, depth + 1) ELSE <<>>)
            \o <<TocLiEnd>>
            \o RenderTocNodes(Tail(nodes), depth)

renderTocSubsections(nodes, depth) ==
    IF nodes = <<>> THEN <<>>
    ELSE <<TocOl(depth)>> \o RenderTocNodes(nodes, depth) \o <<TocOlEnd>>

\* the entry of tocHtml for one chapter; index is 1-based
renderTocChapter(post, chapter, index) ==
    <<TocLi(0), TocA(escapeAttr(chapter.id), ChapterLabel(post, chapter, index))>>
    \o renderTocSubsections(chapter.subsections, 1)
    \o <<TocLiEnd>>

RECURSIVE Concat(_)
Concat(seqs) == IF seqs = <<>> THEN <<>> ELSE Head(seqs) \o Concat(Tail(seqs))

tocHtml(post, chaps) ==
    IF chaps # <<>>
    THEN Concat([k \in 1..Len(chaps) |-> renderTocChapter(post, chaps[k], k)])
    ELSE <<TocLi(0), TocA(<<>>, NoChaptersLabel), TocLiEnd>>

\* the aside put into every page
tocAsideAlways(post, chaps) == [present |-> TRUE, list |-> tocHtml(post, chaps)]

\* tocAsideHtml: the aside is in the page only when post.showContents
tocAsideHtml(post, chaps) ==
    IF post.showContents
    THEN [present |-> TRUE, list |-> tocHtml(post, chaps)]
    ELSE [present |-> FALSE, list |-> <<>>]

\* buildPostHtml after parseMarkdown has returned
buildPostHtml(post, intro, chaps) ==
    [aside |-> tocAsideHtml(post, chaps),
     introHtml |-> [k \in 1..Len(intro) |-> renderBlock(intro[k])],
     chapterHtml |-> [k \in 1..Len(chaps) |-> renderChapter(post, chaps[k], k)]]

\* parseMarkdown returns and buildPostHtml assembles the page, which
\* collectPosts writes.  The two flags of post are arguments of
\* buildPostHtml that parseMarkdown never reads; they are drawn here, where
\* they are first used.
RenderPage ==
    /\ pc = "parsing"
    /\ i >= Len(lines)
    /\ \E nc \in BOOLEAN, sc \in BOOLEAN :
          LET post == [numberChapters |-> nc, showContents |-> sc]
          IN pages' = Append(pages,
                [post |-> post,
                 body |-> lines,
                 outline |-> [introBlocks |-> introBlocks, chapters |-> chapters],
                 html |-> buildPostHtml(post, introBlocks, chapters)])
    /\ pc' = "idle"
    /\ UNCHANGED <<corpus, docIndex, lines, i, introBlocks, chapters, usedIds,
                   activeChapter, subsectionStack, inlineVars, fmVars, buildVars, fileVars,
                   siteVars, tocVars, themeVars>>

\* the collector has not been started
BuildIdle ==
    /\ listing = <<>>
    /\ asset = "ENOENT"
    /\ rootRead = "ok"
    /\ bpc = "idle"
    /\ cursor = 0
    /\ posts = <<>>
    /\ seenUrlPaths = {}
    /\ outputs = <<>>
    /\ buildError = "none"

\* no file is being written or read
FilesIdle ==
    /\ disk = <<>>
    /\ jobs = <<>>
    /\ writesDone = 0
    /\ wpc = "idle"
    /\ chunksDone = 0
    /\ tempPath = <<>>
    /\ observed = <<>>

\* the build of script.js has not been started
SiteIdle ==
    /\ site = <<>>
    /\ spc = "idle"
    /\ visited = 0
    /\ pending = {}
    /\ written = <<>>

\* no page is shown in a browser
TocIdle ==
    /\ tocClasses = {}
    /\ ariaExpanded = FALSE
    /\ tocOpenTimer = 0
    /\ timers = {}
    /\ ticking = FALSE
    /\ timerCount = 0
    /\ maxScroll = 0
    /\ scrollTop = 0

ThemeIdle ==
    /\ storedTheme = "null"
    /\ storageOk = TRUE
    /\ mediaMatches = FALSE
    /\ dataTheme = "light"
    /\ themeLog = <<>>

BrowserIdle == TocIdle /\ ThemeIdle

Init ==
    /\ corpus \in Corpora
    /\ docIndex = 0
    /\ pc = "idle"
    /\ lines = <<>>
    /\ i = 0
    /\ introBlocks = <<>>
    /\ chapters = <<>>
    /\ usedIds = {}
    /\ activeChapter = 0
    /\ subsectionStack = <<>>
    /\ pages = <<>>
    /\ raw = <<>>
    /\ rendered = [done |-> FALSE, html |-> <<>>]
    /\ source = <<>>
    /\ frontMatter = [status |-> "none"]
    /\ BuildIdle
    /\ FilesIdle
    /\ SiteIdle
    /\ BrowserIdle

Next ==
    \/ BeginDocument
    \/ SkipBlank
    \/ ChapterHeading
    \/ OtherHeading
    \/ CodeFence
    \/ UnorderedList
    \/ OrderedList
    \/ Blockquote
    \/ Paragraph
    \/ RenderPage

Spec == Init /\ [][Next]_vars

\* a document is being compiled or waits to be compiled: the states in which
\* a step of Next can be taken
Running == pc = "parsing" \/ docIndex < Len(corpus)

\* parseMarkdown and buildPostHtml are synchronous code that runs to its end:
\* a step that can be taken is taken.  This is weak fairness of Next, with
\* the enabling condition of Next written out as Running.
SpecTerminating == Init /\ [][Next]_vars /\ ([]<><<Next>>_vars \/ []<>(~Running))

(***************************************************************************)
(* renderInline applied to a text.                                         *)
(***************************************************************************)
FragScriptOpen == <<"<","s","c","r","i","p","t",">">>
FragScriptClose == <<"<","/","s","c","r","i","p","t",">">>
FragAmp == <<"&">>
FragGrave == <<Grave>>
FragB == <<"<","b",">">>
FragStar == <<"*">>
FragStars == <<"*","*">>
FragLink == <<"[","a","]","(","h","t","t","p",":","/","/","x">>
FragParen == <<")">>
FragQuotes == <<"\"","'">>
FragToken == <<"_","_","C","O","D","E","_","0","_","_">>

InlineFrags == {FragScriptOpen, FragScriptClose, FragAmp, FragGrave, FragB, FragStar,
                FragStars, FragLink, FragParen, FragQuotes, FragToken}

\* the texts made of up to n fragments
Texts(frags, n) == {Concat(f) : f \in UNION {[1..k -> frags] : k \in 0..n}}

InitInline ==
    /\ corpus = <<>>
    /\ docIndex = 0
    /\ pc = "idle"
    /\ lines = <<>>
    /\ i = 0
    /\ introBlocks = <<>>
    /\ chapters = <<>>
    /\ usedIds = {}
    /\ activeChapter = 0
    /\ subsectionStack = <<>>
    /\ pages = <<>>
    /\ raw \in Texts(InlineFrags, MaxFrags)
    /\ rendered = [done |-> FALSE, html |-> <<>>]
    /\ source = <<>>
    /\ frontMatter = [status |-> "none"]
    /\ BuildIdle
    /\ FilesIdle
    /\ SiteIdle
    /\ BrowserIdle

\* a call renderInline(raw)
RenderInlineCall ==
    /\ ~rendered.done
    /\ rendered' = [done |-> TRUE, html |-> renderInline(raw)]
    /\ UNCHANGED <<structVars, raw, fmVars, buildVars, fileVars, siteVars, tocVars, themeVars>>

NextInline == RenderInlineCall

SpecInline == InitInline /\ [][NextInline]_vars

(***************************************************************************)
(* parseFrontMatter                                                        *)
(***************************************************************************)
\* content.replace(/\r\n/g, '\n')
RECURSIVE NormalizeNewlines(_)
NormalizeNewlines(s) ==
    IF Len(s) <= 1 THEN s
    ELSE IF s = <<"\r", "\n">> THEN <<"\n">>
    ELSE IF Len(s) = 2 THEN s
    ELSE \* the text is cut in two where no \r\n pair is cut
         LET m == Len(s) \div 2
             cut == IF s[m] = "\r" /\ s[m + 1] = "\n" THEN m + 1 ELSE m
         IN NormalizeNewlines(SubSeq(s, 1, cut)) \o NormalizeNewlines(From(s, cut + 1))

\* String.prototype.indexOf(pattern, from): 0-based, -1 when there is none
indexOf(s, pattern, from) ==
    LET hits == {k \in from..(Len(s) - Len(pattern)) :
                    SubSeq(s, k + 1, k + Len(pattern)) = pattern}
    IN IF hits = {} THEN -1 ELSE CHOOSE k \in hits : \A m \in hits : k <= m

\* String.prototype.slice(from, to), 0-based, to exclusive
slice(s, from, to) == SubSeq(s, from + 1, to)

\* String.prototype.split(sep) for a one-character separator
RECURSIVE split(_, _)
split(s, sep) ==
    LET k == indexOf(s, <<sep>>, 0)
    IN IF k = -1 THEN <<s>> ELSE <<slice(s, 0, k)>> \o split(From(s, k + 2), sep)

DelimiterLine == <<"-","-","-">>
OpeningText == <<"-","-","-","\n">>
ClosingText == <<"\n","-","-","-","\n">>

\* the quotes stripped from a value that starts and ends with the same quote
StripQuotes(value) ==
    IF value # <<>> /\ \E q \in {"\"", "'"} : value[1] = q /\ value[Len(value)] = q
    THEN SubSeq(value, 2, Len(value) - 1)
    ELSE value

\* the loop over the lines of the block: the meta so far, or an error
RECURSIVE ParseMetaLines(_, _)
ParseMetaLines(ls, meta) ==
    IF ls = <<>> THEN [status |-> "ok", meta |-> meta]
    ELSE LET line == Head(ls)
             at == indexOf(line, <<":">>, 0)
         IN IF trim(line) = <<>> THEN ParseMetaLines(Tail(ls), meta)
            ELSE IF at = -1 THEN [status |-> "invalidLine", meta |-> meta]
            ELSE ParseMetaLines(Tail(ls),
                    (trim(slice(line, 0, at)) :> StripQuotes(trim(From(line, at + 2))))
                    @@ meta)

\* .replace(/^\n+/, '')
RECURSIVE StripLeadingNewlines(_)
StripLeadingNewlines(s) ==
    IF s # <<>> /\ Head(s) = "\n" THEN StripLeadingNewlines(Tail(s)) ELSE s

parseFrontMatter(content) ==
    LET src == NormalizeNewlines(content)
        end == indexOf(src, ClosingText, 4)
    IN IF ~startsWith(src, OpeningText)
       THEN [status |-> "missing"]
       ELSE IF end = -1
       THEN [status |-> "unterminated"]
       ELSE LET parsed == ParseMetaLines(split(slice(src, 4, end), "\n"), <<>>)
            IN IF parsed.status # "ok"
               THEN [status |-> "invalidLine"]
               ELSE [status |-> "ok", meta |-> parsed.meta,
                     body |-> StripLeadingNewlines(From(src, end + 6))]

FragDelimiter == <<"-","-","-">>
FragNewline == <<"\n">>
FragCrLf == <<"\r","\n">>
FragKeyValue == <<"t",":"," ","\"","v","\"">>
FragWord == <<"x">>

FrontMatterFrags == {FragDelimiter, FragNewline, FragCrLf, FragKeyValue, FragWord}

InitFrontMatter ==
    /\ corpus = <<>>
    /\ docIndex = 0
    /\ pc = "idle"
    /\ lines = <<>>
    /\ i = 0
    /\ introBlocks = <<>>
    /\ chapters = <<>>
    /\ usedIds = {}
    /\ activeChapter = 0
    /\ subsectionStack = <<>>
    /\ pages = <<>>
    /\ raw = <<>>
    /\ rendered = [done |-> FALSE, html |-> <<>>]
    /\ source \in Texts(FrontMatterFrags, MaxFmFrags)
    /\ frontMatter = [status |-> "none"]
    /\ BuildIdle
    /\ FilesIdle
    /\ SiteIdle
    /\ BrowserIdle

\* a call parseFrontMatter(source, filePath)
ParseFrontMatterCall ==
    /\ frontMatter.status = "none"
    /\ frontMatter' = parseFrontMatter(source)
    /\ UNCHANGED <<structVars, inlineVars, source, buildVars, fileVars,
                   siteVars, tocVars, themeVars>>

NextFrontMatter == ParseFrontMatterCall

SpecFrontMatter == InitFrontMatter /\ [][NextFrontMatter]_vars

(***************************************************************************)
(* main and collectPosts: the build over a listing of post directories.    *)
(***************************************************************************)
\* the value of a key that the mapping does not have
Undefined == <<"UNDEFINED">>

Get(meta, key) == IF key \in DOMAIN meta THEN meta[key] ELSE Undefined

KeyTitle == <<"t", "i", "t", "l", "e">>
KeyDescription == <<"d", "e", "s", "c", "r", "i", "p", "t", "i", "o", "n">>
KeyCategory == <<"c", "a", "t", "e", "g", "o", "r", "y">>
KeyDate == <<"d", "a", "t", "e">>
KeyNumberChapters == <<"n", "u", "m", "b", "e", "r", "C", "h", "a", "p", "t", "e", "r", "s">>
KeyShowContents == <<"s", "h", "o", "w", "C", "o", "n", "t", "e", "n", "t", "s">>
WordTrue == <<"t", "r", "u", "e">>
WordFalse == <<"f", "a", "l", "s", "e">>

\* requireString without its check
requireStringLax(value) == [ok |-> TRUE, value |-> value]

\* requireString: the trimmed value, or a failure for a missing or blank one
requireString(value) ==
    IF value = Undefined \/ trim(value) = <<>>
    THEN [ok |-> FALSE, value |-> <<>>]
    ELSE [ok |-> TRUE, value |-> trim(value)]

\* parseBooleanFlag accepting only the exact words true and false
parseBooleanFlagExact(value, defaultValue) ==
    IF value = Undefined \/ value = <<>>
    THEN [ok |-> TRUE, value |-> defaultValue]
    ELSE IF value = WordTrue THEN [ok |-> TRUE, value |-> TRUE]
    ELSE IF value = WordFalse THEN [ok |-> TRUE, value |-> FALSE]
    ELSE [ok |-> FALSE, value |-> defaultValue]

\* parseBooleanFlag for the values a front-matter mapping holds (strings, or
\* undefined for an absent key)
parseBooleanFlag(value, defaultValue) ==
    IF value = Undefined \/ value = <<>>
    THEN [ok |-> TRUE, value |-> defaultValue]
    ELSE LET normalized == toLowerCase(trim(value))
         IN IF normalized = WordTrue THEN [ok |-> TRUE, value |-> TRUE]
            ELSE IF normalized = WordFalse THEN [ok |-> TRUE, value |-> FALSE]
            ELSE [ok |-> FALSE, value |-> defaultValue]

IsLeapYear(y) == (y % 4 = 0 /\ y % 100 # 0) \/ y % 400 = 0

DaysInMonth(y, m) ==
    IF m = 2 THEN (IF IsLeapYear(y) THEN 29 ELSE 28)
    ELSE IF m \in {4, 6, 9, 11} THEN 30 ELSE 31

\* the fields of a text of the form YYYY-MM-DD
DateFields(date) ==
    [year |-> Number(SubSeq(date, 1, 4)),
     month |-> Number(SubSeq(date, 6, 7)),
     day |-> Number(SubSeq(date, 9, 10))]

\* Date.parse(date + 'T00:00:00Z') is a number.  (Texts of the right form
\* whose day exceeds the length of the month are not among the inputs.)
DateParses(date) ==
    /\ Len(date) = 10
    /\ \A k \in {1, 2, 3, 4, 6, 7, 9, 10} : IsDigit(date[k])
    /\ date[5] = "-" /\ date[8] = "-"
    /\ DateFields(date).month \in 1..12
    /\ DateFields(date).day \in 1..DaysInMonth(DateFields(date).year, DateFields(date).month)

\* new Date(date + 'T00:00:00Z') in days since 1970-01-01
DateValue(date) ==
    LET f == DateFields(date)
        y == IF f.month <= 2 THEN f.year - 1 ELSE f.year
        era == y \div 400
        yoe == y - era * 400
        mp == (f.month + 9) % 12
        doy == (153 * mp + 2) \div 5 + f.day - 1
        doe == yoe * 365 + yoe \div 4 - yoe \div 100 + doy
    IN era * 146097 + doe - 719468

\* the comparator of a sort that leaves the discovery order
CompareNothing(a, b) == 0

\* the comparator of posts.sort: negative when a is to come before b
CompareByDate(a, b) == DateValue(b.date) - DateValue(a.date)

\* the stable sort of Array.prototype.sort: each post goes before the first
\* post that the comparator puts after it
RECURSIVE InsertSorted(_, _)
InsertSorted(sorted, post) ==
    IF sorted = <<>> THEN <<post>>
    ELSE IF CompareByDate(post, Head(sorted)) < 0
         THEN <<post>> \o sorted
         ELSE <<Head(sorted)>> \o InsertSorted(Tail(sorted), post)

RECURSIVE sortPosts(_)
sortPosts(ps) ==
    IF ps = <<>> THEN <<>>
    ELSE InsertSorted(sortPosts(SubSeq(ps, 1, Len(ps) - 1)), ps[Len(ps)])

AposXml == <<"&","a","p","o","s",";">>

xmlEscape(value) ==
    replaceAll(replaceAll(replaceAll(replaceAll(replaceAll(value,
        "&", Amp), "<", Lt), ">", Gt), "\"", Quot), "'", AposXml)

\* config.siteUrl without its trailing slash
SiteUrl == <<"h", "t", "t", "p", ":", "/", "/", "x">>

urlPathOf(categorySlug, slug) == categorySlug \o <<"/">> \o slug \o <<"/">>

\* the <item> elements of renderRss, in order
renderRss(ps) ==
    [k \in 1..Len(ps) |->
        LET link == SiteUrl \o <<"/">> \o ps[k].urlPath
        IN [title |-> xmlEscape(ps[k].title),
            link |-> xmlEscape(link),
            guid |-> xmlEscape(link),
            description |-> xmlEscape(ps[k].description)]]

\* the lines of the documents of the model
FmOpen == <<"-", "-", "-">>
FmTitle == <<"t", "i", "t", "l", "e", ":", " ", "T">>
FmTitleAmp == <<"t", "i", "t", "l", "e", ":", " ", "\"", "T", "&", "U", "\"">>
FmTitleBlank == <<"t", "i", "t", "l", "e", ":", " ", "\"", " ", "\"">>
FmDescription == <<"d", "e", "s", "c", "r", "i", "p", "t", "i", "o", "n", ":", " ", "D">>
FmDateJan == <<"d", "a", "t", "e", ":", " ", "2", "0", "2", "6", "-", "0", "1", "-", "0", "1">>
FmDateFeb == <<"d", "a", "t", "e", ":", " ", "2", "0", "2", "6", "-", "0", "2", "-", "0", "1">>
FmDateDec == <<"d", "a", "t", "e", ":", " ", "2", "0", "2", "5", "-", "1", "2", "-", "3", "1">>
FmDateBad == <<"d", "a", "t", "e", ":", " ", "s", "o", "o", "n">>
FmCategory == <<"c", "a", "t", "e", "g", "o", "r", "y", ":", " ", "K">>
FmNumberUpper == <<"n", "u", "m", "b", "e", "r", "C", "h", "a", "p", "t", "e", "r", "s", ":", " ", "T",
      "R", "U", "E">>
FmShowPadded == <<"s", "h", "o", "w", "C", "o", "n", "t", "e", "n", "t", "s", ":", " ", "\"", " ", "f",
      "a", "l", "s", "e", " ", "\"">>
FmShowEmpty == <<"s", "h", "o", "w", "C", "o", "n", "t", "e", "n", "t", "s", ":">>
FmNumberBad == <<"n", "u", "m", "b", "e", "r", "C", "h", "a", "p", "t", "e", "r", "s", ":", " ", "y",
      "e", "s">>
FmNoSeparator == <<"o", "o", "p", "s">>
FmBody == <<"b">>

Document(metaLines) == join(<<FmOpen>> \o metaLines \o <<FmOpen, FmBody>>, <<"\n">>)

DocJan == Document(<<FmTitle, FmDescription, FmDateJan>>)
DocFeb == Document(<<FmTitleAmp, FmDescription, FmDateFeb, FmNumberUpper, FmShowPadded>>)
DocDec == Document(<<FmTitle, FmDescription, FmCategory, FmDateDec, FmShowEmpty>>)
DocNoFrontMatter == join(<<FmTitle, FmBody>>, <<"\n">>)
DocInvalidLine == Document(<<FmTitle, FmNoSeparator, FmDescription, FmDateJan>>)
DocNoTitle == Document(<<FmDescription, FmDateJan>>)
DocBlankTitle == Document(<<FmTitleBlank, FmDescription, FmDateJan>>)
DocBadFlag == Document(<<FmTitle, FmDescription, FmDateJan, FmNumberBad>>)
DocBadDate == Document(<<FmTitle, FmDescription, FmDateBad>>)

GoodDocuments == {DocJan, DocFeb, DocDec}
BadDocuments ==
    {DocNoFrontMatter, DocInvalidLine, DocNoTitle, DocBlankTitle, DocBadFlag, DocBadDate}

SlugC == <<"c">>
SlugD == <<"d">>
SlugP == <<"p">>
SlugQ == <<"q">>

\* the documents of the model and the directories they are met in
GoodPlacements ==
    {<<DocJan, <<SlugC, SlugP>>>>, <<DocJan, <<SlugC, SlugQ>>>>,
     <<DocFeb, <<SlugC, SlugP>>>>, <<DocFeb, <<SlugD, SlugP>>>>,
     <<DocDec, <<SlugC, SlugQ>>>>}

PostEntry(place, read, content) ==
    [kind |-> "post", categorySlug |-> place[1], slug |-> place[2],
     read |-> read, content |-> content]

\* what the two loops can meet: a category directory that cannot be listed,
\* an entry that is not a directory, a post directory whose content.md cannot
\* be read, and a post directory with a document
Entries ==
    {[kind |-> "missingCategory", categorySlug |-> SlugD, slug |-> <<>>,
      read |-> "ENOENT", content |-> <<>>],
     [kind |-> "file", categorySlug |-> SlugC, slug |-> SlugQ,
      read |-> "ok", content |-> <<>>]}
    \cup {PostEntry(<<SlugC, SlugQ>>, r, <<>>) : r \in {"ENOENT", "EACCES"}}
    \cup {PostEntry(<<SlugC, SlugQ>>, "ok", d) : d \in BadDocuments}
    \cup {PostEntry(g[2], "ok", g[1]) : g \in GoodPlacements}

Listings == UNION {[1..k -> Entries] : k \in 0..MaxEntries}

\* an error that is dropped: the iteration goes on to the next entry
Swallow(e) == [outcome |-> "skip", error |-> "none"]

\* throw new Error(...): the iteration, and with it collectPosts, ends
Throw(e) == [outcome |-> "error", error |-> e]

\* parseFrontMatter over the documents of the model
FrontMatterOf == [d \in GoodDocuments \cup BadDocuments \cup {<<>>} |-> parseFrontMatter(d)]

\* one iteration of the inner loop up to the point where the page is built:
\* the entry is skipped, or the iteration throws, or there is a post to publish
ProcessEntry(entry, seen) ==
    LET none == [outcome |-> "skip", error |-> "none"]
        fail(e) == Throw(e)
        fm == FrontMatterOf[entry.content]
        meta == fm.meta
        title == requireString(Get(meta, KeyTitle))
        description == requireString(Get(meta, KeyDescription))
        metaCategory == Get(meta, KeyCategory)
        category == requireString(IF metaCategory \in {Undefined, <<>>}
                                  THEN entry.categorySlug ELSE metaCategory)
        date == requireString(Get(meta, KeyDate))
        numberChapters == parseBooleanFlag(Get(meta, KeyNumberChapters), FALSE)
        showContents == parseBooleanFlag(Get(meta, KeyShowContents), TRUE)
        urlPath == urlPathOf(entry.categorySlug, entry.slug)
    IN IF entry.kind = "missingCategory" THEN fail("readdir")
       ELSE IF entry.kind = "file" THEN none
       ELSE IF entry.read # "ok" THEN none
       ELSE IF fm.status \in {"missing", "unterminated"} THEN fail("MalformedFrontMatter")
       ELSE IF fm.status = "invalidLine" THEN fail("InvalidFrontMatterLine")
       ELSE IF ~title.ok \/ ~description.ok \/ ~category.ok \/ ~date.ok
            THEN fail("MissingField")
       ELSE IF ~numberChapters.ok \/ ~showContents.ok THEN fail("InvalidBooleanFlag")
       ELSE IF ~DateParses(date.value) THEN fail("InvalidDate")
       ELSE IF urlPath \in seen THEN fail("DuplicateOutputPath")
       ELSE [outcome |-> "publish", error |-> "none", body |-> fm.body,
             post |-> [title |-> title.value,
                       date |-> date.value,
                       description |-> description.value,
                       category |-> category.value,
                       categorySlug |-> entry.categorySlug,
                       slug |-> entry.slug,
                       urlPath |-> urlPath,
                       numberChapters |-> numberChapters.value,
                       showContents |-> showContents.value]]

\* a file written by the build: its kind, its path under build/, the entry of
\* the listing it was made from (0 for none) and what it holds
Output(kind, path, from, content) ==
    [kind |-> kind, path |-> path, from |-> from, content |-> content]

AssetPath == <<"C", "N", "A", "M", "E">>
IndexPath == <<"c", "o", "n", "t", "e", "n", "t", "/", "p", "o", "s", "t", "s", ".", "j", "s", "o",
      "n">>
RssPath == <<"r", "s", "s", ".", "x", "m", "l">>
PageName == <<"i", "n", "d", "e", "x", ".", "h", "t", "m", "l">>

InitBuild ==
    /\ corpus = <<>>
    /\ docIndex = 0
    /\ pc = "idle"
    /\ lines = <<>>
    /\ i = 0
    /\ introBlocks = <<>>
    /\ chapters = <<>>
    /\ usedIds = {}
    /\ activeChapter = 0
    /\ subsectionStack = <<>>
    /\ pages = <<>>
    /\ raw = <<>>
    /\ rendered = [done |-> FALSE, html |-> <<>>]
    /\ source = <<>>
    /\ frontMatter = [status |-> "none"]
    /\ FilesIdle
    /\ SiteIdle
    /\ BrowserIdle
    /\ listing \in Listings
    /\ asset \in (IF Len(listing) <= 1 THEN {"ok", "ENOENT", "EACCES"} ELSE {"ENOENT"})
    /\ rootRead \in (IF Len(listing) = 0 THEN {"ok", "ENOENT"} ELSE {"ok"})
    /\ bpc = "start"
    /\ cursor = 0
    /\ posts = <<>>
    /\ seenUrlPaths = {}
    /\ outputs = <<>>
    /\ buildError = "none"

\* main up to collectPosts: copyStaticAssets, each asset through copyIfExists
CopyStaticAssets ==
    /\ bpc = "start"
    /\ IF asset = "ok"
       THEN /\ outputs' = Append(outputs, Output("asset", AssetPath, 0, <<>>))
            /\ bpc' = "collect"
            /\ buildError' = buildError
       ELSE IF asset = "ENOENT"
       THEN /\ bpc' = "collect"
            /\ UNCHANGED <<outputs, buildError, siteVars, tocVars, themeVars>>
       ELSE /\ bpc' = "failed"
            /\ buildError' = "readFile"
            /\ outputs' = outputs
    /\ UNCHANGED <<structVars, inlineVars, fmVars, fileVars,
                   listing, asset, rootRead, cursor, posts, seenUrlPaths,
                   siteVars, tocVars, themeVars>>

\* collectPosts: the listing of the categories root; a failure returns no posts
ListCategories ==
    /\ bpc = "collect"
    /\ bpc' = IF rootRead = "ok" THEN "loop" ELSE "collected"
    /\ UNCHANGED <<structVars, inlineVars, fmVars, fileVars,
                   listing, asset, rootRead, cursor, posts, seenUrlPaths, outputs,
                   buildError, siteVars, tocVars, themeVars>>

\* collectPosts: one iteration of the loops
VisitEntry ==
    /\ bpc = "loop"
    /\ cursor < Len(listing)
    /\ LET entry == listing[cursor + 1]
           result == ProcessEntry(entry, seenUrlPaths)
       IN /\ cursor' = cursor + 1
          /\ IF result.outcome = "skip"
             THEN UNCHANGED <<bpc, posts, seenUrlPaths, outputs, buildError, siteVars, tocVars, themeVars>>
             ELSE IF result.outcome = "error"
             THEN /\ bpc' = "failed"
                  /\ buildError' = result.error
                  /\ UNCHANGED <<posts, seenUrlPaths, outputs, siteVars, tocVars, themeVars>>
             ELSE /\ seenUrlPaths' = seenUrlPaths \cup {result.post.urlPath}
                  /\ outputs' = Append(outputs,
                        Output("page", result.post.urlPath \o PageName, cursor + 1,
                               <<[post |-> result.post, body |-> result.body]>>))
                  /\ posts' = Append(posts, result.post)
                  /\ UNCHANGED <<bpc, buildError, siteVars, tocVars, themeVars>>
    /\ UNCHANGED <<structVars, inlineVars, fmVars, fileVars, listing, asset, rootRead,
                   siteVars, tocVars, themeVars>>

\* collectPosts: the sort after the loops, and the return
SortPosts ==
    /\ bpc = "loop"
    /\ cursor = Len(listing)
    /\ posts' = sortPosts(posts)
    /\ bpc' = "collected"
    /\ UNCHANGED <<structVars, inlineVars, fmVars, fileVars,
                   listing, asset, rootRead, cursor, seenUrlPaths, outputs, buildError,
                   siteVars, tocVars, themeVars>>

\* main: writeFileAtomic(outputJson, JSON.stringify(posts))
WriteIndex ==
    /\ bpc = "collected"
    /\ outputs' = Append(outputs, Output("index", IndexPath, 0, posts))
    /\ bpc' = "indexWritten"
    /\ UNCHANGED <<structVars, inlineVars, fmVars, fileVars,
                   listing, asset, rootRead, cursor, posts, seenUrlPaths, buildError,
                   siteVars, tocVars, themeVars>>

\* main: writeFileAtomic(rssPath, renderRss(config, posts))
WriteRss ==
    /\ bpc = "indexWritten"
    /\ outputs' = Append(outputs, Output("rss", RssPath, 0, renderRss(posts)))
    /\ bpc' = "done"
    /\ UNCHANGED <<structVars, inlineVars, fmVars, fileVars,
                   listing, asset, rootRead, cursor, posts, seenUrlPaths, buildError,
                   siteVars, tocVars, themeVars>>

NextBuild ==
    \/ CopyStaticAssets
    \/ ListCategories
    \/ VisitEntry
    \/ SortPosts
    \/ WriteIndex
    \/ WriteRss

SpecBuild == InitBuild /\ [][NextBuild]_vars

(***************************************************************************)
(* The writes of a build, chunk by chunk, and a concurrent reader.         *)
(* A path is <<directory, name>>; a content is a sequence of chunks.       *)
(***************************************************************************)
\* what a path that holds no file reads as: a chunk that no content has
Absent == <<<<-1, -1>>>>

Content(d, path) == IF path \in DOMAIN d THEN d[path] ELSE Absent

Put(d, path, content) ==
    [q \in DOMAIN d \cup {path} |-> IF q = path THEN content ELSE d[q]]

Remove(d, path) == [q \in DOMAIN d \ {path} |-> d[q]]

\* fs.rename(from, to)
Rename(d, from, to) ==
    IF from = to THEN d ELSE Remove(Put(d, to, d[from]), from)

OutputFolder == "build/c/p"
PagePath == <<OutputFolder, <<"index.html">>>>
AttachmentPath == <<OutputFolder, <<"figure.png">>>>
OutputPaths == {PagePath, AttachmentPath}

Pid == "pid"
Clock == {"t1", "t2"}

\* a write straight to the target path
tempPathSame(filePath, now) == filePath

\* tempPathFor: .<base>.<pid>.<Date.now()>.tmp in the directory of the target
tempPathFor(filePath, now) ==
    <<filePath[1], <<".">> \o filePath[2] \o <<".", Pid, ".", now, ".tmp">>>>

\* the content the k-th write of the build is given
JobContent(k) == [j \in 1..jobs[k].size |-> <<k, j>>]

\* a content left by an earlier build
OldContent == <<<<0, 1>>>>

\* pages go through writeFileAtomic, attachments through fs.cp
Jobs ==
    {[op |-> "writeFileAtomic", filePath |-> PagePath, size |-> n] : n \in 1..MaxChunks}
    \cup {[op |-> "cp", filePath |-> AttachmentPath, size |-> n] : n \in 1..MaxChunks}

InitFiles ==
    /\ corpus = <<>>
    /\ docIndex = 0
    /\ pc = "idle"
    /\ lines = <<>>
    /\ i = 0
    /\ introBlocks = <<>>
    /\ chapters = <<>>
    /\ usedIds = {}
    /\ activeChapter = 0
    /\ subsectionStack = <<>>
    /\ pages = <<>>
    /\ raw = <<>>
    /\ rendered = [done |-> FALSE, html |-> <<>>]
    /\ source = <<>>
    /\ frontMatter = [status |-> "none"]
    /\ BuildIdle
    /\ SiteIdle
    /\ BrowserIdle
    /\ jobs \in UNION {[1..k -> Jobs] : k \in 0..MaxWrites}
    /\ disk \in {<<>>, Put(<<>>, PagePath, OldContent), Put(<<>>, AttachmentPath, OldContent)}
    /\ writesDone = 0
    /\ wpc = "idle"
    /\ chunksDone = 0
    /\ tempPath = <<>>
    /\ observed = <<>>

CurrentJob == jobs[writesDone + 1]

\* writeFileAtomic: mkdir, tempPathFor, and fs.writeFile opening the temporary file
AtomicOpen ==
    /\ wpc = "idle"
    /\ writesDone < Len(jobs)
    /\ CurrentJob.op = "writeFileAtomic"
    /\ \E now \in Clock :
          /\ tempPath' = tempPathFor(CurrentJob.filePath, now)
          /\ disk' = Put(disk, tempPathFor(CurrentJob.filePath, now), <<>>)
    /\ chunksDone' = 0
    /\ wpc' = "writing"
    /\ UNCHANGED <<structVars, inlineVars, fmVars, buildVars, jobs, writesDone, observed,
                   siteVars, tocVars, themeVars>>

\* fs.writeFile: one more chunk reaches the temporary file
AtomicWriteChunk ==
    /\ wpc = "writing"
    /\ chunksDone < CurrentJob.size
    /\ disk' = Put(disk, tempPath, Append(disk[tempPath], JobContent(writesDone + 1)[chunksDone + 1]))
    /\ chunksDone' = chunksDone + 1
    /\ UNCHANGED <<structVars, inlineVars, fmVars, buildVars, jobs, writesDone, wpc,
                   tempPath, observed, siteVars, tocVars, themeVars>>

\* writeFileAtomic: fs.rename(tempPath, filePath)
AtomicRename ==
    /\ wpc = "writing"
    /\ chunksDone = CurrentJob.size
    /\ disk' = Rename(disk, tempPath, CurrentJob.filePath)
    /\ writesDone' = writesDone + 1
    /\ wpc' = "idle"
    /\ chunksDone' = 0
    /\ tempPath' = <<>>
    /\ UNCHANGED <<structVars, inlineVars, fmVars, buildVars, jobs, observed,
                   siteVars, tocVars, themeVars>>

\* copyPostAttachments: fs.cp with force opens the destination afresh
CopyOpen ==
    /\ wpc = "idle"
    /\ writesDone < Len(jobs)
    /\ CurrentJob.op = "cp"
    /\ disk' = Put(disk, CurrentJob.filePath, <<>>)
    /\ chunksDone' = 0
    /\ wpc' = "copying"
    /\ UNCHANGED <<structVars, inlineVars, fmVars, buildVars, jobs, writesDone, tempPath,
                   observed, siteVars, tocVars, themeVars>>

\* fs.cp: one more chunk reaches the destination
CopyChunk ==
    /\ wpc = "copying"
    /\ chunksDone < CurrentJob.size
    /\ disk' = Put(disk, CurrentJob.filePath,
                   Append(disk[CurrentJob.filePath], JobContent(writesDone + 1)[chunksDone + 1]))
    /\ chunksDone' = chunksDone + 1
    /\ UNCHANGED <<structVars, inlineVars, fmVars, buildVars, jobs, writesDone, wpc,
                   tempPath, observed, siteVars, tocVars, themeVars>>

\* fs.cp: the copy is complete
CopyDone ==
    /\ wpc = "copying"
    /\ chunksDone = CurrentJob.size
    /\ writesDone' = writesDone + 1
    /\ wpc' = "idle"
    /\ chunksDone' = 0
    /\ UNCHANGED <<structVars, inlineVars, fmVars, buildVars, disk, jobs, tempPath, observed,
                   siteVars, tocVars, themeVars>>

\* a reader, at any moment, reads an output path
Read ==
    /\ \E path \in OutputPaths :
          observed' = <<path, Content(disk, path)>>
    /\ UNCHANGED <<structVars, inlineVars, fmVars, buildVars, disk, jobs, writesDone, wpc,
                   chunksDone, tempPath, siteVars, tocVars, themeVars>>

NextFiles ==
    \/ AtomicOpen
    \/ AtomicWriteChunk
    \/ AtomicRename
    \/ CopyOpen
    \/ CopyChunk
    \/ CopyDone
    \/ Read

SpecFiles == InitFiles /\ [][NextFiles]_vars

(***************************************************************************)
(* The build of src/script.js: the output paths its steps write.  A path   *)
(* is the sequence of its segments.                                        *)
(***************************************************************************)
\* no document is being parsed, rendered or read
ParserIdle ==
    /\ corpus = <<>>
    /\ docIndex = 0
    /\ pc = "idle"
    /\ lines = <<>>
    /\ i = 0
    /\ introBlocks = <<>>
    /\ chapters = <<>>
    /\ usedIds = {}
    /\ activeChapter = 0
    /\ subsectionStack = <<>>
    /\ pages = <<>>
    /\ raw = <<>>
    /\ rendered = [done |-> FALSE, html |-> <<>>]
    /\ source = <<>>
    /\ frontMatter = [status |-> "none"]

BuildRoot == "build"

\* copyStaticAssets: the required files, then .nojekyll and CNAME
StaticFiles == <<"index.html", "index.js", "script.js", "styles.css", "theme.js",
                 ".nojekyll", "CNAME">>

\* the names a post folder may hold
EntryNames == {"content.md", "figure.png", "index.html", ".DS_Store"}

\* the names copyPostAttachments passes over
SkippedEntries == {"content.md", ".DS_Store"}

\* the entries copyPostAttachments copies
Attachments(entries) == entries \ SkippedEntries

\* the post folders in the order the two loops of collectPosts reach them
Placements == <<[categorySlug |-> "c", slug |-> "p"],
                [categorySlug |-> "c", slug |-> "q"],
                [categorySlug |-> "d", slug |-> "p"]>>

\* the k-th smallest element of a set of numbers
Nth(set, k) == CHOOSE x \in set : Cardinality({y \in set : y < x}) = k - 1

\* the sites of up to MaxFolders post folders
Sites ==
    UNION {
        {[k \in 1..Cardinality(chosen) |->
             [categorySlug |-> Placements[Nth(chosen, k)].categorySlug,
              slug |-> Placements[Nth(chosen, k)].slug,
              entries |-> e[k]]] :
            e \in [1..Cardinality(chosen) -> SUBSET EntryNames]} :
        chosen \in {c \in SUBSET (1..Len(Placements)) : Cardinality(c) <= MaxFolders}}

StaticOutput(file) == <<BuildRoot, file>>
AttachmentOutput(folder, name) == <<BuildRoot, folder.categorySlug, folder.slug, name>>
HtmlPath(folder) == <<BuildRoot, folder.categorySlug, folder.slug, "index.html">>
OutputJson == <<BuildRoot, "content", "posts.json">>
SiteRssPath == <<BuildRoot, "rss.xml">>

Written(step, path) == [step |-> step, path |-> path]

InitSite ==
    /\ ParserIdle
    /\ BuildIdle
    /\ FilesIdle
    /\ BrowserIdle
    /\ site \in Sites
    /\ spc = "start"
    /\ visited = 0
    /\ pending = {}
    /\ written = <<>>

\* main: copyStaticAssets
SiteCopyStaticAssets ==
    /\ spc = "start"
    /\ written' = written \o [k \in 1..Len(StaticFiles) |->
                                 Written("static", StaticOutput(StaticFiles[k]))]
    /\ spc' = "posts"
    /\ UNCHANGED <<structVars, inlineVars, fmVars, buildVars, fileVars, tocVars, themeVars,
                   site, visited, pending>>

\* collectPosts: the next post folder; one without content.md is passed
\* over, for any other the folder is listed for copyPostAttachments
SiteVisitFolder ==
    /\ spc = "posts"
    /\ visited < Len(site)
    /\ IF "content.md" \in site[visited + 1].entries
       THEN /\ pending' = Attachments(site[visited + 1].entries)
            /\ spc' = "attachments"
            /\ UNCHANGED visited
       ELSE /\ visited' = visited + 1
            /\ UNCHANGED <<pending, spc>>
    /\ UNCHANGED <<structVars, inlineVars, fmVars, buildVars, fileVars, tocVars, themeVars,
                   site, written>>

\* copyPostAttachments: fs.cp of one entry; the copies run concurrently, so
\* in any order
CopyPostAttachment ==
    /\ spc = "attachments"
    /\ \E name \in pending :
          /\ written' = Append(written,
                Written("attachment", AttachmentOutput(site[visited + 1], name)))
          /\ pending' = pending \ {name}
    /\ UNCHANGED <<structVars, inlineVars, fmVars, buildVars, fileVars, tocVars, themeVars,
                   site, spc, visited>>

\* collectPosts: writeFileAtomic(htmlPath, html) once the copies are done
SiteWritePage ==
    /\ spc = "attachments"
    /\ pending = {}
    /\ written' = Append(written, Written("page", HtmlPath(site[visited + 1])))
    /\ visited' = visited + 1
    /\ spc' = "posts"
    /\ UNCHANGED <<structVars, inlineVars, fmVars, buildVars, fileVars, tocVars, themeVars,
                   site, pending>>

\* main: writeFileAtomic(outputJson, ...)
SiteWriteIndex ==
    /\ spc = "posts"
    /\ visited = Len(site)
    /\ written' = Append(written, Written("index", OutputJson))
    /\ spc' = "rss"
    /\ UNCHANGED <<structVars, inlineVars, fmVars, buildVars, fileVars, tocVars, themeVars,
                   site, visited, pending>>

\* main: writeFileAtomic(rssPath, ...)
SiteWriteRss ==
    /\ spc = "rss"
    /\ written' = Append(written, Written("rss", SiteRssPath))
    /\ spc' = "done"
    /\ UNCHANGED <<structVars, inlineVars, fmVars, buildVars, fileVars, tocVars, themeVars,
                   site, visited, pending>>

NextSite ==
    \/ SiteCopyStaticAssets
    \/ SiteVisitFolder
    \/ CopyPostAttachment
    \/ SiteWritePage
    \/ SiteWriteIndex
    \/ SiteWriteRss

SpecSite == InitSite /\ [][NextSite]_vars

(***************************************************************************)
(* Properties of the structurer and of the page assembler.                 *)
(***************************************************************************)
HeadingBlocks(blocks) ==
    LET hs == SelectSeq(blocks, LAMBDA b : b.type = "heading")
    IN [k \in 1..Len(hs) |->
            [level |-> hs[k].level, ordinal |-> 0, text |-> hs[k].text, id |-> hs[k].id]]

\* every heading of an outline that was given an id, in document order;
\* a chapter carries its 1-based ordinal
Headings(intro, chaps) ==
    HeadingBlocks(intro)
    \o Concat([k \in 1..Len(chaps) |->
                 <<[level |-> 2, ordinal |-> k, text |-> chaps[k].title, id |-> chaps[k].id]>>
                 \o HeadingBlocks(chaps[k].blocks)])

CurrentHeadings == Headings(introBlocks, chapters)

EarlierIds(hs, n) == {hs[m].id : m \in 1..(n - 1)}

SlugFirst == <<"f","i","r","s","t">>
SlugOverview == <<"o","v","e","r","v","i","e","w">>
Hyphen == <<"-">>

\* C1: in every state of parseMarkdown, and so after it has finished, the
\* anchor ids assigned in the document (chapter ids and the ids of the
\* heading blocks of every level) are pairwise distinct.
C1_IdsDistinct ==
    /\ \A a, b \in 1..Len(CurrentHeadings) :
          a # b => CurrentHeadings[a].id # CurrentHeadings[b].id
    /\ \A k \in 1..Len(pages) :
          LET hs == Headings(pages[k].outline.introBlocks, pages[k].outline.chapters)
          IN \A a, b \in 1..Len(hs) : a # b => hs[a].id # hs[b].id

\* a finished document in which two headings have the same text
C1_Witness ==
    /\ pc = "idle"
    /\ docIndex > 0
    /\ \E a, b \in 1..Len(CurrentHeadings) :
          /\ a # b
          /\ CurrentHeadings[a].level = CurrentHeadings[b].level
          /\ CurrentHeadings[a].text = CurrentHeadings[b].text

\* the outline the example body `## First` / `text` is said to have, given
\* the id of its chapter
FirstExampleOutline(id) ==
    [introBlocks |-> <<>>,
     chapters |-> <<[title |-> <<"F","i","r","s","t">>,
                     id |-> id,
                     blocks |-> <<[type |-> "p", text |-> LineTextWord]>>,
                     subsections |-> <<>>]>>]

\* C2 as stated: a heading with a non-empty slug whose id does not collide
\* has the id chapter-<slug> (level 2) or section-<slug> (other levels), and
\* the body `## First` / `text` has one chapter "First" with id chapter-first,
\* an empty intro and the one paragraph "text".
C2_Original ==
    /\ \A n \in 1..Len(CurrentHeadings) :
          LET h == CurrentHeadings[n]
              base == (IF h.level = 2 THEN ChapterWord ELSE SectionWord)
                      \o Hyphen \o slugify(h.text)
          IN slugify(h.text) # <<>> /\ base \notin EarlierIds(CurrentHeadings, n)
             => h.id = base
    /\ \A k \in 1..Len(pages) :
          pages[k].body = <<LineFirst, LineTextWord>>
          => pages[k].outline =
                FirstExampleOutline(ChapterWord \o Hyphen \o SlugFirst)

\* C2, amended: the id of such a level-2 heading is chapter-<k>-<slug>, k
\* being the 1-based ordinal of the chapter among the chapters of the
\* document, and that of any other heading is section-<slug>; the body
\* `## First` / `text` has one chapter "First" with id chapter-1-first, an
\* empty intro and the one paragraph "text".
C2_IdForm ==
    /\ \A n \in 1..Len(CurrentHeadings) :
          LET h == CurrentHeadings[n]
              base == (IF h.level = 2
                       THEN ChapterWord \o Hyphen \o String(h.ordinal)
                       ELSE SectionWord)
                      \o Hyphen \o slugify(h.text)
          IN slugify(h.text) # <<>> /\ base \notin EarlierIds(CurrentHeadings, n)
             => h.id = base
    /\ \A k \in 1..Len(pages) :
          pages[k].body = <<LineFirst, LineTextWord>>
          => pages[k].outline =
                FirstExampleOutline(ChapterWord \o Hyphen \o <<"1">> \o Hyphen \o SlugFirst)

\* the example body has been compiled
C2_Witness ==
    \E k \in 1..Len(pages) : pages[k].body = <<LineFirst, LineTextWord>>

\* what parseMarkdown hands to uniqueId for the heading in the current line
StepPrefix ==
    IF HeadingLevel(CurrentLine) = 2 THEN ChapterPrefix(Len(chapters) + 1) ELSE SectionWord
StepText ==
    IF HeadingLevel(CurrentLine) = 2
    THEN normalizeChapterTitle(HeadingText(CurrentLine)) ELSE HeadingText(CurrentLine)
StepFallback ==
    IF HeadingLevel(CurrentLine) = 2 THEN String(Len(chapters) + 1) ELSE String(i + 1)
StepBase ==
    StepPrefix \o Hyphen \o (IF slugify(StepText) # <<>> THEN slugify(StepText) ELSE StepFallback)

\* a step of parseMarkdown that assigns an id assigns the base id if that is
\* not yet assigned, and else base-n for the least n >= 2 with base-n not yet
\* assigned
C3_Step ==
    (pc = "parsing" /\ pc' = "parsing" /\ usedIds' # usedIds)
    => \E id \in usedIds' :
          /\ usedIds' = usedIds \cup {id}
          /\ id \notin usedIds
          /\ \/ id = StepBase
             \/ /\ StepBase \in usedIds
                /\ \E n \in 2..(Cardinality(usedIds) + 2) :
                      /\ id = StepBase \o Hyphen \o String(n)
                      /\ \A m \in 2..(n - 1) : (StepBase \o Hyphen \o String(m)) \in usedIds

SectionOverview == SectionWord \o Hyphen \o SlugOverview

\* the ids of the heading blocks of a block sequence, in order
BlockIds(blocks) ==
    LET hs == HeadingBlocks(blocks) IN [k \in 1..Len(hs) |-> hs[k].id]

C3_Examples ==
    \A k \in 1..Len(pages) :
        /\ pages[k].body = <<LineFirst, LineOverview, LineOverview>>
           => BlockIds(pages[k].outline.chapters[1].blocks) =
                 <<SectionOverview, SectionOverview \o <<"-","2">> >>
        /\ pages[k].body = <<LineOverview2, LineOverview, LineOverview>>
           => BlockIds(pages[k].outline.introBlocks) =
                 <<SectionOverview \o <<"-","2">>, SectionOverview,
                   SectionOverview \o <<"-","3">> >>

\* C3: each heading's id is its base id if that base is not yet assigned in
\* the document, otherwise base-n for the smallest n >= 2 such that base-n is
\* not yet assigned; two headings "Overview" get section-overview and
\* section-overview-2, in document order.
C3_SmallestSuffix == [][C3_Step]_vars /\ []C3_Examples

\* a third heading found both its base and base-2 assigned
C3_Witness ==
    \E id \in usedIds : \E base \in usedIds :
        /\ (base \o <<"-","2">>) \in usedIds
        /\ id = base \o <<"-","3">>

\* C4: the outline, the anchor ids and the page of a document are a function
\* of its own text and metadata: whenever a build has compiled the same body
\* with the same flags twice, whatever it compiled in between, the two
\* outlines (with their anchor ids) and the two pages are identical.
C4_CompileIsFunction ==
    \A j, k \in 1..Len(pages) :
        pages[j].body = pages[k].body /\ pages[j].post = pages[k].post
        => /\ pages[j].outline = pages[k].outline
           /\ pages[j].html = pages[k].html

\* a body with headings was compiled, then another body, then the first again
C4_Witness ==
    /\ Len(pages) >= 3
    /\ pages[1].body = pages[3].body
    /\ pages[1].post = pages[3].post
    /\ pages[2].body # pages[1].body
    /\ Len(Headings(pages[1].outline.introBlocks, pages[1].outline.chapters)) >= 2
    /\ Len(Headings(pages[2].outline.introBlocks, pages[2].outline.chapters)) >= 1

RECURSIVE LevelsNest(_, _)
LevelsNest(nodes, parentLevel) ==
    \A k \in 1..Len(nodes) :
        /\ nodes[k].level \in 3..6
        /\ nodes[k].level > parentLevel
        /\ LevelsNest(nodes[k].children, nodes[k].level)

\* C5: in every chapter's subsection tree, after every heading processed,
\* each child's level is strictly greater than its parent's, and every
\* subsection level lies between 3 and 6.
C5_LevelsIncrease ==
    \A k \in 1..Len(chapters) : LevelsNest(chapters[k].subsections, 2)

\* a chapter with a subsection that has a child
C5_Witness ==
    \E k \in 1..Len(chapters) :
        \E n \in 1..Len(chapters[k].subsections) :
            chapters[k].subsections[n].children # <<>>

\* the links of a table of contents in order, each with the number of
\* nested sub-lists (<ol class="toc-sub">) that are open around it
RECURSIVE TocLinks(_, _)
TocLinks(list, depth) ==
    IF list = <<>> THEN <<>>
    ELSE LET t == Head(list)
         IN CASE t.t = "ol" -> TocLinks(Tail(list), depth + 1)
              [] t.t = "/ol" -> TocLinks(Tail(list), depth - 1)
              [] t.t = "a" -> <<[href |-> t.href, depth |-> depth]>>
                              \o TocLinks(Tail(list), depth)
              [] OTHER -> TocLinks(Tail(list), depth)

\* every sub-list carries the class depth-<d> of its own nesting depth
RECURSIVE TocDepthClasses(_, _)
TocDepthClasses(list, depth) ==
    IF list = <<>> THEN TRUE
    ELSE LET t == Head(list)
         IN CASE t.t = "ol" -> t.n = depth + 1 /\ TocDepthClasses(Tail(list), depth + 1)
              [] t.t = "/ol" -> TocDepthClasses(Tail(list), depth - 1)
              [] OTHER -> TocDepthClasses(Tail(list), depth)

\* the subsections of a tree in outline order, each with its depth
RECURSIVE SubsectionLinks(_, _)
SubsectionLinks(nodes, depth) ==
    IF nodes = <<>> THEN <<>>
    ELSE <<[href |-> <<"#">> \o Head(nodes).id, depth |-> depth]>>
         \o SubsectionLinks(Head(nodes).children, depth + 1)
         \o SubsectionLinks(Tail(nodes), depth)

OutlineLinks(chaps) ==
    Concat([k \in 1..Len(chaps) |->
              <<[href |-> <<"#">> \o chaps[k].id, depth |-> 0]>>
              \o SubsectionLinks(chaps[k].subsections, 1)])

ElementIds(blocks) ==
    LET hs == SelectSeq(blocks, LAMBDA b : b.el = "h")
    IN [k \in 1..Len(hs) |-> hs[k].id]

\* the id attributes of the elements of the article body, in order
BodyIds(html) ==
    ElementIds(html.introHtml)
    \o Concat([k \in 1..Len(html.chapterHtml) |->
                 <<html.chapterHtml[k].id>> \o ElementIds(html.chapterHtml[k].blocks)])

Occurrences(seq, x) == Cardinality({k \in 1..Len(seq) : seq[k] = x})

NoLevel2Heading(body) == \A k \in 1..Len(body) : HeadingLevel(trim(body[k])) # 2

NoChaptersEntry == <<TocLi(0), TocA(<<>>, NoChaptersLabel), TocLiEnd>>

\* C7: a body without a level-2 heading has no chapter, and its blocks are
\* all in the intro (while it is parsed every block goes to the intro, and
\* the page renders the intro blocks and no chapter section); its page has
\* no aside when showContents is false and an aside with the single entry
\* "No chapters" when it is true.  For every page, the aside is present if
\* and only if showContents is true.
C7_NoChapters ==
    /\ pc = "parsing" /\ NoLevel2Heading(lines)
       => chapters = <<>> /\ activeChapter = 0
    /\ \A k \in 1..Len(pages) :
          /\ pages[k].html.aside.present = pages[k].post.showContents
          /\ NoLevel2Heading(pages[k].body)
             => /\ pages[k].outline.chapters = <<>>
                /\ pages[k].html.chapterHtml = <<>>
                /\ Len(pages[k].html.introHtml) = Len(pages[k].outline.introBlocks)
                /\ (\E n \in 1..Len(pages[k].body) : trim(pages[k].body[n]) # <<>>)
                   => pages[k].outline.introBlocks # <<>>
                /\ pages[k].post.showContents
                   => pages[k].html.aside.list = NoChaptersEntry
                /\ ~pages[k].post.showContents
                   => pages[k].html.aside.list = <<>>

\* a page with blocks and no chapter, whose aside shows the placeholder
C7_Witness ==
    \E k \in 1..Len(pages) :
        /\ NoLevel2Heading(pages[k].body)
        /\ Len(pages[k].outline.introBlocks) >= 2
        /\ pages[k].post.showContents
        /\ pages[k].html.aside.list = NoChaptersEntry

(***************************************************************************)
(* Properties of renderInline.                                             *)
(***************************************************************************)
EntityTexts == {Amp, Lt, Gt, Quot, Apos}

\* the characters that may stand in an output as plain text
PlainChars ==
    (UNION {Range(f) : f \in InlineFrags} \cup UNION {Range(e) : e \in EntityTexts})
    \ {"<", ">", "\"", "'"}

EntityAt(s, k) == \E e \in EntityTexts : startsWith(From(s, k), e)

ScriptExample == FragScriptOpen \o FragAmp \o FragScriptClose
ScriptRendered ==
    Lt \o <<"s","c","r","i","p","t">> \o Gt \o Amp
    \o Lt \o <<"/","s","c","r","i","p","t">> \o Gt
CodeExample == FragGrave \o FragB \o FragGrave
CodeRendered == <<TagCodeOpen>> \o Lt \o <<"b">> \o Gt \o <<TagCodeClose>>

\* C8: the output of renderInline holds no markup that comes from the input:
\* no unescaped < > " ' and no & that does not begin an entity, and besides
\* plain characters only the a, strong, em and code tags the renderer emits;
\* <script>&</script> renders as escaped text, and the code span of <b> as
\* escaped angle brackets inside a code element.
C8_InjectionSafe ==
    rendered.done
    => /\ \A k \in 1..Len(rendered.html) :
             /\ rendered.html[k] \in PlainChars \cup EmittedTags
             /\ rendered.html[k] = "&" => EntityAt(rendered.html, k)
       /\ raw = ScriptExample => rendered.html = ScriptRendered
       /\ raw = CodeExample => rendered.html = CodeRendered

\* <script>&</script> has been rendered
C8_Witness ==
    /\ rendered.done
    /\ raw = ScriptExample
    /\ rendered.html = ScriptRendered

\* an entity whose ampersand has been escaped again
DoubleEscaped(s) ==
    \E k \in 1..Len(s) :
        /\ startsWith(From(s, k), Amp)
        /\ \E e \in EntityTexts : startsWith(From(s, k + Len(Amp)), Tail(e))

\* C9 as stated: in the output every character of a link target and of a
\* code span is escaped exactly once: a sensitive character of the input
\* appears as its single entity, never as the entity of an entity.  (No text
\* of the model holds the name of an entity, so every entity of an output
\* comes from the escaping.)
C9_EscapedOnce ==
    rendered.done => ~DoubleEscaped(rendered.html)

\* the code spans of the input, in order, as renderInline finds them
CodeSpans == ExtractCode(escapeHtml(raw), 0).codeSnippets

\* C28 as stated: renderInline restores each code span exactly once (the
\* output has as many code elements as the input has code spans), and input
\* text that is not a code span is never removed or replaced by code-span
\* content: an input that holds the literal text __CODE_0__ has it in the
\* output.
C28_Original ==
    rendered.done
    => /\ Occurrences(rendered.html, TagCodeOpen) = Len(CodeSpans)
       /\ indexOf(raw, FragToken, 0) >= 0 => indexOf(rendered.html, FragToken, 0) >= 0

(***************************************************************************)
(* Properties of parseFrontMatter.                                         *)
(***************************************************************************)
SourceLines == split(NormalizeNewlines(source), "\n")

\* the 1-based indexes of the lines after the first that are a delimiter line
ClosingLines == {k \in 2..Len(SourceLines) : SourceLines[k] = DelimiterLine}

WellDelimited == SourceLines[1] = DelimiterLine /\ ClosingLines # {}

FirstClosing == CHOOSE k \in ClosingLines : \A m \in ClosingLines : k <= m

\* C10 as stated: parseFrontMatter fails as malformed exactly when the text
\* does not begin with a delimiter line or no later delimiter line closes the
\* block; for a text with both (whatever follows the closing line, however
\* many metadata lines precede it) whose metadata lines all contain a
\* separator, it returns the mapping and the body that follows the closing
\* line, leading blank lines removed.
C10_Original ==
    frontMatter.status # "none"
    => /\ frontMatter.status \in {"missing", "unterminated"} <=> ~WellDelimited
       /\ ( /\ WellDelimited
            /\ \A k \in 2..(FirstClosing - 1) : indexOf(SourceLines[k], <<":">>, 0) # -1 )
          => /\ frontMatter.status = "ok"
             /\ frontMatter.body =
                   StripLeadingNewlines(
                      join(SubSeq(SourceLines, FirstClosing + 1, Len(SourceLines)), <<"\n">>))

(***************************************************************************)
(* Properties of the build.                                                *)
(***************************************************************************)
\* the outputs of a kind
OutputsOf(kind) == SelectSeq(outputs, LAMBDA o : o.kind = kind)

\* the entries of the listing that have a page
Published == {outputs[k].from : k \in {j \in 1..Len(outputs) : outputs[j].kind = "page"}}

\* the post of the page made from entry k
PostOf(k) ==
    LET o == CHOOSE o \in Range(outputs) : o.kind = "page" /\ o.from = k
    IN o.content[1].post

IsDocument(k) == listing[k].kind = "post" /\ listing[k].read = "ok"

SamePlace(j, k) ==
    /\ listing[j].categorySlug = listing[k].categorySlug
    /\ listing[j].slug = listing[k].slug

\* entry k is a valid document in a directory that an earlier valid document has
RepeatsEarlier(k) ==
    \E j \in 1..(k - 1) :
        /\ IsDocument(j)
        /\ listing[j].content \in GoodDocuments
        /\ SamePlace(j, k)

\* C11: every entry of the corpus index has a non-empty trimmed title and
\* description and a date that passed the date check, and no two entries share
\* the (category-slug, post-slug) pair or the urlPath; the index file of a
\* successful build holds exactly these entries.
C11_IndexEntriesValid ==
    /\ \A k \in 1..Len(posts) :
          /\ posts[k].title # <<>> /\ posts[k].title = trim(posts[k].title)
          /\ posts[k].description # <<>>
          /\ posts[k].description = trim(posts[k].description)
          /\ DateParses(posts[k].date)
          /\ \A j \in 1..Len(posts) :
                j # k => /\ <<posts[j].categorySlug, posts[j].slug>>
                            # <<posts[k].categorySlug, posts[k].slug>>
                         /\ posts[j].urlPath # posts[k].urlPath
    /\ bpc = "done" => /\ Len(OutputsOf("index")) = 1
                       /\ OutputsOf("index")[1].content = posts

\* a build of three documents has succeeded
C11_Witness ==
    /\ bpc = "done"
    /\ Len(posts) = 3
    /\ Len(listing) = 3

ListedErrors ==
    {"MalformedFrontMatter", "InvalidFrontMatterLine", "MissingField",
     "InvalidBooleanFlag", "InvalidDate", "DuplicateOutputPath"}

\* C13: a visited document that raises one of the listed errors ends the
\* build in failure at that document: the error is recorded, the document
\* has no page and no index entry, and neither the post index nor the RSS
\* feed is written.
C13_ErrorsAreFatal ==
    /\ \A k \in 1..cursor :
          (IsDocument(k) /\ (listing[k].content \in BadDocuments \/ RepeatsEarlier(k)))
          => /\ bpc = "failed"
             /\ cursor = k
             /\ buildError \in ListedErrors
    /\ bpc = "failed" /\ buildError \in ListedErrors
       => /\ cursor \notin Published
          /\ Len(posts) = Cardinality(Published)
          /\ OutputsOf("index") = <<>>
          /\ OutputsOf("rss") = <<>>

\* a document was published and the next one raised an error
C13_Witness ==
    /\ bpc = "failed"
    /\ buildError = "InvalidDate"
    /\ cursor = 2
    /\ Published = {1}

\* the posts in the order in which their documents were met
EncounterOrder == [k \in 1..Len(OutputsOf("page")) |-> OutputsOf("page")[k].content[1].post]

\* the position of a post in the encounter order
EncounterOf(post) == CHOOSE k \in 1..Len(EncounterOrder) : EncounterOrder[k] = post

Reordered(ps, f) == [k \in 1..Len(ps) |-> ps[f[k]]]

DatesDistinct(ps) ==
    \A j, k \in 1..Len(ps) : j # k => DateValue(ps[j].date) # DateValue(ps[k].date)

\* C14: after collection the index is ordered by date descending, entries of
\* equal date keep their encounter order, the RSS items are in index order,
\* and for pairwise distinct dates every discovery order gives the same index.
C14_SortedByDate ==
    bpc \in {"collected", "indexWritten", "done"}
    => /\ \A j, k \in 1..Len(posts) :
             j < k => /\ DateValue(posts[j].date) >= DateValue(posts[k].date)
                      /\ DateValue(posts[j].date) = DateValue(posts[k].date)
                         => EncounterOf(posts[j]) < EncounterOf(posts[k])
       /\ Range(posts) = Range(EncounterOrder) /\ Len(posts) = Len(EncounterOrder)
       /\ DatesDistinct(posts)
          => \A f \in Permutations(1..Len(posts)) :
                sortPosts(Reordered(EncounterOrder, f)) = posts
       /\ bpc = "done"
          => /\ Len(OutputsOf("rss")) = 1
             /\ LET items == OutputsOf("rss")[1].content
                IN /\ Len(items) = Len(posts)
                   /\ \A k \in 1..Len(items) :
                         items[k].link = xmlEscape(SiteUrl \o <<"/">> \o posts[k].urlPath)

\* January, February, January were met in this order: the index holds
\* February first and the two January entries in the order they were met
C14_Witness ==
    /\ bpc = "done"
    /\ Len(posts) = 3
    /\ listing[1].content = DocJan /\ listing[2].content = DocFeb
    /\ listing[3].content = DocJan
    /\ posts[1] = PostOf(2)
    /\ posts[2].slug = listing[1].slug
    /\ posts[3].slug = listing[3].slug

\* C17 as stated: a read failure is tolerated only for a post directory
\* without a document file and for a static asset that does not exist; a
\* document that exists but cannot be read, a category directory that cannot
\* be listed and any other failed read make the build fail.
C17_Original ==
    /\ (bpc # "start" /\ asset = "ENOENT") => buildError # "readFile"
    /\ (bpc # "start" /\ asset = "EACCES") => bpc = "failed"
    /\ (bpc \notin {"start", "collect"} /\ rootRead # "ok") => bpc = "failed"
    /\ \A k \in 1..cursor :
          /\ listing[k].kind = "missingCategory" => bpc = "failed"
          /\ (listing[k].kind = "post" /\ listing[k].read = "EACCES") => bpc = "failed"
          /\ (listing[k].kind = "post" /\ listing[k].read = "ENOENT" /\ cursor = k)
             => bpc # "failed"

\* the outcome of a flag value: as the contract words it ("claimed": the words
\* true and false in any letter case, nothing else) and with surrounding
\* whitespace allowed ("trimmed")
ExpectedFlag(reading, value, defaultValue) ==
    LET word == toLowerCase(IF reading = "trimmed" THEN trim(value) ELSE value)
    IN IF value = Undefined \/ value = <<>> THEN [ok |-> TRUE, value |-> defaultValue]
       ELSE IF word = WordTrue THEN [ok |-> TRUE, value |-> TRUE]
       ELSE IF word = WordFalse THEN [ok |-> TRUE, value |-> FALSE]
       ELSE [ok |-> FALSE, value |-> defaultValue]

\* the documents that have no defect other than, possibly, a flag value
FlagDocuments == GoodDocuments \cup {DocBadFlag}

\* every visited document was treated as its two flag values demand
FlagsFollow(reading) ==
    \A k \in 1..cursor :
        (IsDocument(k) /\ listing[k].content \in FlagDocuments)
        => LET meta == FrontMatterOf[listing[k].content].meta
               nc == ExpectedFlag(reading, Get(meta, KeyNumberChapters), FALSE)
               sc == ExpectedFlag(reading, Get(meta, KeyShowContents), TRUE)
           IN /\ k \in Published
                 => /\ nc.ok /\ sc.ok
                    /\ PostOf(k).numberChapters = nc.value
                    /\ PostOf(k).showContents = sc.value
              /\ (~nc.ok \/ ~sc.ok)
                 => /\ k \notin Published
                    /\ bpc = "failed" /\ buildError = "InvalidBooleanFlag"
              /\ (nc.ok /\ sc.ok /\ ~RepeatsEarlier(k)) => k \in Published

\* C18 as stated: a flag is true or false for the words true / false in any
\* letter case, the default when absent or empty, and every other value raises
\* the invalid-flag error and leaves the document unpublished.
C18_Original == FlagsFollow("claimed")

\* C18, amended: a flag is true or false for a value that, with surrounding
\* whitespace removed, is the word true / false in any letter case; it is the
\* default (false for numberChapters, true for showContents) when absent or
\* empty; every other value raises the invalid-flag error and the document is
\* not published.
C18_FlagParsing == FlagsFollow("trimmed")

\* a document with numberChapters TRUE and a padded showContents false was
\* published, and a document with numberChapters yes raised the error
C18_Witness ==
    /\ cursor = 2
    /\ listing[1].content = DocFeb
    /\ listing[2].content = DocBadFlag
    /\ Published = {1}
    /\ PostOf(1).numberChapters = TRUE
    /\ PostOf(1).showContents = FALSE
    /\ buildError = "InvalidBooleanFlag"

(***************************************************************************)
(* Properties of the writes.                                               *)
(***************************************************************************)
\* the complete contents a path can hold: none, the one of an earlier build,
\* and the ones the writes of this build give it
Complete(path) ==
    {Absent, OldContent}
    \cup {JobContent(k) : k \in {j \in 1..Len(jobs) : jobs[j].filePath = path}}

AtomicPaths == {jobs[k].filePath : k \in {j \in 1..Len(jobs) : jobs[j].op = "writeFileAtomic"}}

\* what a read of a path written through writeFileAtomic has observed is complete
ReadsComplete ==
    (observed # <<>> /\ observed[1] \in AtomicPaths) => observed[2] \in Complete(observed[1])

\* a step that changes a path written through writeFileAtomic is the rename of
\* a temporary file of the same directory that holds the complete new content
TargetStep ==
    \A path \in AtomicPaths :
        Content(disk', path) # Content(disk, path)
        => /\ wpc = "writing"
           /\ CurrentJob.filePath = path
           /\ tempPath # path
           /\ tempPath[1] = path[1]
           /\ Content(disk, tempPath) = JobContent(writesDone + 1)
           /\ Content(disk', path) = JobContent(writesDone + 1)
           /\ Content(disk', tempPath) = Absent

\* C15: a file written through writeFileAtomic is written in full to a
\* temporary path of the target's directory and then renamed onto the target;
\* in every interleaving a read of the target observes the previous complete
\* content (or absence) or the complete new content, never a prefix.
C15_AtomicWrite == []ReadsComplete /\ [][TargetStep]_vars

\* a reader has read the page while its new content was half-written to the
\* temporary file, and the target still held the previous content
C15_Witness ==
    /\ wpc = "writing"
    /\ CurrentJob.size = 2
    /\ chunksDone = 1
    /\ Content(disk, tempPath) = <<<<writesDone + 1, 1>>>>
    /\ observed = <<PagePath, OldContent>>

\* C16 as stated: a reader running concurrently with the build never observes
\* a half-written file at any output path, attachments included.
C16_Original ==
    observed # <<>> => observed[2] \in Complete(observed[1])

(***************************************************************************)
(* Further properties of the structurer.                                   *)
(***************************************************************************)
\* the step gives an id to a heading whose slugified text is empty
EmptySlugStep ==
    /\ pc = "parsing" /\ pc' = "parsing"
    /\ usedIds' # usedIds
    /\ slugify(StepText) = <<>>

\* the id the step assigns begins with the prefix and the given token
NewIdBegins(token) ==
    \E id \in usedIds' \ usedIds : startsWith(id, StepPrefix \o Hyphen \o token)

\* C19 as stated: for every heading, of level 2 as of any other level, whose
\* slugified text is empty, the base of the anchor id uses the heading's
\* 1-based position in the line stream as the fallback token.
C19_Original == [][EmptySlugStep => NewIdBegins(String(i + 1))]_vars

BangBody == <<LineText, LineChapterBang, LineBang>>

\* the text line, the chapter "!" and the section "!" give chapter-1-1 (the
\* first chapter, on line 2) and section-3 (on line 3)
C19_Example ==
    \A k \in 1..Len(pages) :
        pages[k].body = BangBody
        => /\ Len(pages[k].outline.chapters) = 1
           /\ pages[k].outline.chapters[1].id = ChapterWord \o <<"-", "1", "-", "1">>
           /\ BlockIds(pages[k].outline.chapters[1].blocks) = <<SectionWord \o <<"-", "3">> >>

\* C19, amended: a heading whose slugified text is empty gets a positional
\* fallback token as the base of its id: a heading of a level other than 2
\* its 1-based position in the line stream, a level-2 heading the 1-based
\* ordinal of its chapter.
C19_Fallback ==
    /\ [][EmptySlugStep
          => NewIdBegins(IF HeadingLevel(CurrentLine) = 2
                         THEN String(Len(chapters) + 1) ELSE String(i + 1))]_vars
    /\ []C19_Example

\* the body with the chapter "!" on line 2 and the section "!" on line 3 was compiled
C19_Witness ==
    \E k \in 1..Len(pages) : pages[k].body = BangBody

\* the titles of the level-2 heading lines outside code fences, in order
RECURSIVE ChapterLines(_, _)
ChapterLines(ls, inFence) ==
    IF ls = <<>> THEN <<>>
    ELSE LET line == trim(Head(ls))
         IN IF inFence THEN ChapterLines(Tail(ls), ~IsFence(line))
            ELSE IF IsFence(line) THEN ChapterLines(Tail(ls), TRUE)
            ELSE IF HeadingLevel(line) = 2
            THEN <<normalizeChapterTitle(HeadingText(line))>> \o ChapterLines(Tail(ls), FALSE)
            ELSE ChapterLines(Tail(ls), FALSE)

NoLevel2Block(intro, chaps) ==
    /\ \A h \in Range(HeadingBlocks(intro)) : h.level # 2
    /\ \A k \in 1..Len(chaps) : \A h \in Range(HeadingBlocks(chaps[k].blocks)) : h.level # 2

\* the chapters of every compiled page are the level-2 heading lines outside
\* fences, and no heading block has level 2
ChaptersAreLevel2Lines ==
    /\ NoLevel2Block(introBlocks, chapters)
    /\ \A k \in 1..Len(pages) :
          /\ [c \in 1..Len(pages[k].outline.chapters) |-> pages[k].outline.chapters[c].title]
             = ChapterLines(pages[k].body, FALSE)
          /\ NoLevel2Block(pages[k].outline.introBlocks, pages[k].outline.chapters)

\* a step at a level-2 heading adds one chapter, makes it the active one and
\* empties the subsection stack, and adds no block; no other step adds a chapter
ChapterStep ==
    (pc = "parsing" /\ pc' = "parsing")
    => IF i < Len(lines) /\ HeadingLevel(CurrentLine) = 2
       THEN /\ Len(chapters') = Len(chapters) + 1
            /\ activeChapter' = Len(chapters')
            /\ subsectionStack' = <<>>
            /\ chapters'[Len(chapters')].blocks = <<>>
            /\ chapters'[Len(chapters')].subsections = <<>>
            /\ SubSeq(chapters', 1, Len(chapters)) = chapters
            /\ introBlocks' = introBlocks
       ELSE /\ Len(chapters') = Len(chapters)
            /\ activeChapter' = activeChapter

\* C20: exactly the level-2 headings create chapters: the chapters are, in
\* order, the level-2 heading lines outside code fences; a level-1 heading
\* creates none; a level-2 heading is never emitted as a heading block; right
\* after a level-2 heading the subsection stack is empty and the new chapter
\* is the active one.
C20_ChaptersFromLevel2 == []ChaptersAreLevel2Lines /\ [][ChapterStep]_vars

\* a body with a level-1 heading, a level-2 heading and a level-3 heading
\* was compiled: one chapter, made by the level-2 heading
C20_Witness ==
    \E k \in 1..Len(pages) :
        /\ pages[k].body = <<LineTop, LineChapter, LineSection>>
        /\ Len(pages[k].outline.chapters) = 1
        /\ Len(HeadingBlocks(pages[k].outline.introBlocks)) = 1

\* the nodes of a subsection tree in pre-order, each with the id of its
\* parent (<<>> for a top-level subsection)
RECURSIVE TreeNodes(_, _)
TreeNodes(nodes, parentId) ==
    IF nodes = <<>> THEN <<>>
    ELSE <<[id |-> Head(nodes).id, level |-> Head(nodes).level,
            title |-> Head(nodes).title, parent |-> parentId]>>
         \o TreeNodes(Head(nodes).children, Head(nodes).id)
         \o TreeNodes(Tail(nodes), parentId)

\* the heading blocks of level >= 3 of a chapter, in order
SubHeadings(chapter) ==
    SelectSeq(chapter.blocks, LAMBDA b : b.type = "heading" /\ b.level >= 3)

\* the id of the nearest heading before hs[n] whose level is strictly less
\* than that of hs[n], <<>> if there is none
NearestLower(hs, n) ==
    LET lower == {m \in 1..(n - 1) : hs[m].level < hs[n].level}
    IN IF lower = {} THEN <<>>
       ELSE hs[CHOOSE m \in lower : \A o \in lower : o <= m].id

\* the subsection tree of a chapter holds the chapter's heading blocks of
\* level >= 3, each once and under the nearest preceding one of lower level
TreeMirrorsHeadings(chapter) ==
    LET hs == SubHeadings(chapter)
        ns == TreeNodes(chapter.subsections, <<>>)
    IN /\ Len(ns) = Len(hs)
       /\ \A n \in 1..Len(hs) :
             /\ ns[n].id = hs[n].id
             /\ ns[n].level = hs[n].level
             /\ ns[n].title = hs[n].text
             /\ Occurrences([m \in 1..Len(ns) |-> ns[m].id], hs[n].id) = 1
             /\ ns[n].parent = NearestLower(hs, n)

TreesMirrorHeadings ==
    /\ \A c \in 1..Len(chapters) : TreeMirrorsHeadings(chapters[c])
    /\ \A k \in 1..Len(pages) :
          \A c \in 1..Len(pages[k].outline.chapters) :
              TreeMirrorsHeadings(pages[k].outline.chapters[c])

\* a step at a heading of level >= 3 while a chapter is active appends the
\* heading block, with a fresh id, to the active chapter
SubsectionStep ==
    (InLoop /\ pc' = "parsing" /\ activeChapter # 0 /\ HeadingLevel(CurrentLine) >= 3)
    => /\ Len(chapters') = Len(chapters)
       /\ introBlocks' = introBlocks
       /\ \E id \in usedIds' \ usedIds :
             chapters'[activeChapter].blocks =
                Append(chapters[activeChapter].blocks,
                       [type |-> "heading", level |-> HeadingLevel(CurrentLine),
                        text |-> HeadingText(CurrentLine), id |-> id])

\* C21: every heading of level >= 3 met while a chapter is active becomes a
\* heading block of that chapter and occurs exactly once, with the same id,
\* in the chapter's subsection tree; its parent is the nearest preceding
\* subsection of the chapter of strictly lower level, and it is a top-level
\* subsection when there is none.
C21_SubsectionTree == []TreesMirrorHeadings /\ [][SubsectionStep]_vars

NestingBody == <<LineChapter, LineSection, LineDeep, LineDeep, LineTop, LineFive, LineSection>>

\* the body with the levels 3, 4, 4, 1, 5, 3 inside one chapter was compiled:
\* the second level-4 heading lies under the level-3 heading, the level-5
\* heading under the second level-4 heading, the last heading at the top
C21_Witness ==
    \E k \in 1..Len(pages) :
        /\ pages[k].body = NestingBody
        /\ LET ns == TreeNodes(pages[k].outline.chapters[1].subsections, <<>>)
           IN /\ Len(ns) = 5
              /\ ns[3].parent = ns[1].id
              /\ ns[4].parent = ns[3].id
              /\ ns[5].parent = <<>>

\* the blocks of an outline: those of the intro, then those of each chapter
AllBlocks(intro, chaps) ==
    intro \o Concat([c \in 1..Len(chaps) |-> chaps[c].blocks])

\* the language tag of an opening fence line, as written after the fence or
\* in lower case
FenceTag(reading, line) ==
    IF reading = "written" THEN trim(From(line, 4)) ELSE toLowerCase(trim(From(line, 4)))

\* the fences of a body found by a scan that toggles on fence lines: each
\* with its tag and the lines between its opening and its closing fence
RECURSIVE FencedBlocks(_, _, _, _, _)
FencedBlocks(reading, ls, inFence, tag, content) ==
    IF ls = <<>>
    THEN IF inFence THEN <<[lang |-> tag, code |-> join(content, <<"\n">>)]>> ELSE <<>>
    ELSE LET line == trim(Head(ls))
         IN IF inFence
            THEN IF IsFence(line)
                 THEN <<[lang |-> tag, code |-> join(content, <<"\n">>)]>>
                      \o FencedBlocks(reading, Tail(ls), FALSE, <<>>, <<>>)
                 ELSE FencedBlocks(reading, Tail(ls), TRUE, tag, Append(content, Head(ls)))
            ELSE IF IsFence(line)
                 THEN FencedBlocks(reading, Tail(ls), TRUE, FenceTag(reading, line), <<>>)
                 ELSE FencedBlocks(reading, Tail(ls), FALSE, <<>>, <<>>)

\* the code blocks of an outline, in order
CodeBlocks(intro, chaps) ==
    LET cs == SelectSeq(AllBlocks(intro, chaps), LAMBDA b : b.type = "code")
    IN [k \in 1..Len(cs) |-> [lang |-> cs[k].lang, code |-> cs[k].code]]

\* the code blocks of every compiled page are the fences of its body
CodeBlocksAreFences(reading) ==
    \A k \in 1..Len(pages) :
        CodeBlocks(pages[k].outline.introBlocks, pages[k].outline.chapters)
        = FencedBlocks(reading, pages[k].body, FALSE, <<>>, <<>>)

\* the 0-based cursor after the fence opened in the current line: past the
\* next fence line, or the end of the input when there is none
AfterFence ==
    LET closing == {j \in (i + 2)..Len(lines) : IsFence(trim(lines[j]))}
    IN IF closing = {} THEN Len(lines)
       ELSE CHOOSE j \in closing : \A o \in closing : j <= o

\* a step at an opening fence appends one code block and nothing else: no
\* chapter, no subsection, no id, and the cursor passes the whole fence
FenceStep ==
    (InLoop /\ pc' = "parsing" /\ IsFence(CurrentLine))
    => /\ i' = AfterFence
       /\ usedIds' = usedIds
       /\ Len(chapters') = Len(chapters)
       /\ activeChapter' = activeChapter
       /\ subsectionStack' = subsectionStack
       /\ \A c \in 1..Len(chapters) :
             /\ chapters'[c].subsections = chapters[c].subsections
             /\ chapters'[c].id = chapters[c].id
       /\ \E block \in Range(AllBlocks(introBlocks', chapters')) :
             /\ block.type = "code"
             /\ AllBlocks(introBlocks', chapters')
                = Append(AllBlocks(introBlocks, chapters), block)

\* C22 as stated: the lines between an opening fence and its closing fence
\* (or the end of the input) are the content of one code block, unchanged and
\* in order, and the block carries the language tag of the opening fence as
\* it is written there.
C22_Original == CodeBlocksAreFences("written")

\* C22, amended: the lines between an opening fence and its closing fence (or
\* the end of the input) are the content of one code block, unchanged and in
\* order, and the block carries the language tag of the opening fence
\* converted to lower case; no line inside a fence creates a heading, a
\* chapter, a subsection or a list, or consumes an anchor id.
C22_FencesVerbatim == []CodeBlocksAreFences("lowered") /\ [][FenceStep]_vars

\* a fence tagged J around the line `## A` was compiled: one code block with
\* the tag j and the line as its content, and no chapter
C22_Witness ==
    \E k \in 1..Len(pages) :
        /\ pages[k].body = <<LineFence, LineChapter, LineFence>>
        /\ pages[k].outline.chapters = <<>>
        /\ pages[k].outline.introBlocks =
              <<[type |-> "code", lang |-> <<"j">>, code |-> LineChapter]>>

\* the list kind of a trimmed line: "ul" for `- `, "ol" for `N. `, else "none"
ListKind(line) ==
    IF IsUnordered(line) THEN "ul" ELSE IF IsOrdered(line) THEN "ol" ELSE "none"

\* a list line without its marker and the white space after the marker
ListItem(line) ==
    LET marker == IF IsUnordered(line) THEN 1
                  ELSE RunLength(line, Range(DigitChars)) + 1
        rest == From(line, marker + 1)
    IN From(rest, RunLength(rest, {" ", "\t"}) + 1)

\* the maximal runs of list lines of one kind outside fences, in order, each
\* with its items
RECURSIVE ListRuns(_, _, _, _)
ListRuns(ls, inFence, kind, items) ==
    LET flush == IF kind = "none" THEN <<>> ELSE <<[type |-> kind, items |-> items]>>
    IN IF ls = <<>> THEN flush
       ELSE LET line == trim(Head(ls))
                k == IF inFence THEN "none" ELSE ListKind(line)
                fence == IF inFence THEN ~IsFence(line) ELSE IsFence(line)
            IN IF k = kind /\ k # "none"
               THEN ListRuns(Tail(ls), FALSE, kind, Append(items, ListItem(line)))
               ELSE flush \o ListRuns(Tail(ls), fence, k,
                                      IF k = "none" THEN <<>> ELSE <<ListItem(line)>>)

\* the list blocks of an outline, in order
ListBlocks(intro, chaps) ==
    SelectSeq(AllBlocks(intro, chaps), LAMBDA b : b.type \in {"ul", "ol"})

\* the list blocks of every compiled page are the maximal runs of its body
ListBlocksAreRuns ==
    \A k \in 1..Len(pages) :
        ListBlocks(pages[k].outline.introBlocks, pages[k].outline.chapters)
        = ListRuns(pages[k].body, FALSE, "none", <<>>)

\* a step at a list line appends one list block of the kind of the line and
\* moves the cursor over lines of that kind only, up to the end of the input,
\* a blank line or a line that starts a block of another kind
ListStep ==
    (InLoop /\ pc' = "parsing" /\ ListKind(CurrentLine) # "none")
    => /\ i' > i
       /\ \A j \in (i + 1)..i' : ListKind(trim(lines[j])) = ListKind(CurrentLine)
       /\ i' < Len(lines) => ListKind(trim(lines[i' + 1])) # ListKind(CurrentLine)
       /\ usedIds' = usedIds
       /\ Len(chapters') = Len(chapters)
       /\ \E block \in Range(AllBlocks(introBlocks', chapters')) :
             /\ block.type = ListKind(CurrentLine)
             /\ Len(block.items) = i' - i
             /\ AllBlocks(introBlocks', chapters')
                = Append(AllBlocks(introBlocks, chapters), block)

\* C23: a maximal run of consecutive lines of the same list kind (`- ` or
\* `N. `) becomes exactly one list block whose items are those lines, in
\* order, without their markers; the block ends only at the end of the input,
\* at a blank line or at a line that starts a block of another kind.
C23_ListRuns == []ListBlocksAreRuns /\ [][ListStep]_vars

\* two unordered lines and an ordered line were compiled: an unordered list
\* of two items, then an ordered list of one
C23_Witness ==
    \E k \in 1..Len(pages) :
        /\ pages[k].body = <<LineItem, LineItem, LineOne>>
        /\ pages[k].outline.introBlocks =
              <<[type |-> "ul", items |-> << <<"i">>, <<"i">> >>],
                [type |-> "ol", items |-> << <<"o">> >>]>>

\* the labels of the chapter entries of a table of contents, in order
RECURSIVE ChapterTocLabels(_)
ChapterTocLabels(list) ==
    IF Len(list) < 2 THEN <<>>
    ELSE (IF list[1].t = "li" /\ list[1].n = 0 /\ list[2].t = "a"
          THEN <<list[2].label>> ELSE <<>>)
         \o ChapterTocLabels(Tail(list))

\* the k-th chapter heading and the k-th chapter entry of the table of
\* contents of every page are the rendered title, after `k. ` when
\* numberChapters is set
LabelsNumbered ==
    \A k \in 1..Len(pages) :
        LET post == pages[k].post
            chaps == pages[k].outline.chapters
            html == pages[k].html
        IN \A c \in 1..Len(chaps) :
              LET label == (IF post.numberChapters THEN String(c) \o <<".", " ">> ELSE <<>>)
                           \o renderInline(chaps[c].title)
              IN /\ html.chapterHtml[c].h2 = label
                 /\ html.aside.present
                    => /\ Len(ChapterTocLabels(html.aside.list)) = Len(chaps)
                       /\ ChapterTocLabels(html.aside.list)[c] = label

\* no stored chapter title begins with a numeric prefix `N. `
TitlesUnnumbered ==
    /\ \A c \in 1..Len(chapters) : ~IsOrdered(chapters[c].title)
    /\ \A k \in 1..Len(pages) :
          \A c \in 1..Len(pages[k].outline.chapters) :
              ~IsOrdered(pages[k].outline.chapters[c].title)

\* C24 as stated: with numberChapters set the k-th chapter's rendered heading
\* and its entry in the table of contents both begin with `k. `, with it
\* unset neither is prefixed, and the title stored in a chapter never carries
\* a numeric prefix `N. `.
C24_Original == LabelsNumbered /\ TitlesUnnumbered

\* while parseMarkdown runs the cursor lies within the lines
CursorInRange == pc = "parsing" => (i >= 0 /\ i <= Len(lines))

\* an iteration of the main loop starts below the number of lines, moves the
\* cursor forward by at least one and not beyond the number of lines
CursorAdvances ==
    (pc = "parsing" /\ pc' = "parsing")
    => (i < Len(lines) /\ i' >= i + 1 /\ i' <= Len(lines))

\* C26: parseMarkdown terminates on every input: every iteration of its main
\* loop (blank line, heading, code fence, list, blockquote, paragraph)
\* advances the line cursor by at least one, the cursor never exceeds the
\* number of lines, and every parse that has begun returns.
C26_Terminates ==
    /\ []CursorInRange
    /\ [][CursorAdvances]_vars
    /\ (pc = "parsing") ~> (pc = "idle")

\* a body of three lines, an unclosed fence, has been parsed in one
\* iteration that moved the cursor from 0 to 3
C26_Witness ==
    /\ pc = "idle"
    /\ docIndex > 0
    /\ lines = <<LineFence, LineChapter, LineItem>>
    /\ i = 3
    /\ Len(AllBlocks(introBlocks, chapters)) = 1

\* seq is old, or old with one element appended
GrowsByAtMostOne(old, seq) ==
    \/ seq = old
    \/ Len(seq) = Len(old) + 1 /\ SubSeq(seq, 1, Len(old)) = old

\* an iteration of the main loop emits at most one block, appended to the
\* intro while there is no chapter and to the last chapter, the active one,
\* otherwise; the intro is left alone once there is a chapter, and every
\* chapter but the active one is left alone
FrameStep ==
    (pc = "parsing" /\ pc' = "parsing")
    => /\ Len(AllBlocks(introBlocks', chapters'))
          <= Len(AllBlocks(introBlocks, chapters)) + 1
       /\ chapters # <<>> => introBlocks' = introBlocks
       /\ chapters = <<>> => GrowsByAtMostOne(introBlocks, introBlocks')
       /\ activeChapter = Len(chapters)
       /\ \A c \in 1..(Len(chapters) - 1) : chapters'[c] = chapters[c]
       /\ Len(chapters') > Len(chapters)
          => /\ SubSeq(chapters', 1, Len(chapters)) = chapters
             /\ introBlocks' = introBlocks
       /\ Len(chapters') = Len(chapters) /\ chapters # <<>>
          => /\ GrowsByAtMostOne(chapters[Len(chapters)].blocks,
                                 chapters'[Len(chapters)].blocks)
             /\ chapters'[Len(chapters)].id = chapters[Len(chapters)].id
             /\ chapters'[Len(chapters)].title = chapters[Len(chapters)].title

\* C27: every emitted block is appended to exactly one container, the intro
\* while no chapter exists and the active chapter otherwise; once the first
\* level-2 heading has been processed the intro never changes again, and once
\* a later level-2 heading has started a new chapter the blocks and the
\* subsection tree of every earlier chapter never change again.
C27_Frame == [][FrameStep]_vars

FrameBody == <<LineText, LineChapter, LineSection, LineChapter, LineSection, LineText>>

\* the body with a paragraph, a chapter with a subsection and a second
\* chapter with a subsection and a paragraph was compiled: one intro block,
\* one block in the first chapter, two in the second
C27_Witness ==
    \E k \in 1..Len(pages) :
        /\ pages[k].body = FrameBody
        /\ Len(pages[k].outline.introBlocks) = 1
        /\ Len(pages[k].outline.chapters) = 2
        /\ Len(pages[k].outline.chapters[1].blocks) = 1
        /\ Len(pages[k].outline.chapters[1].subsections) = 1
        /\ Len(pages[k].outline.chapters[2].blocks) = 2

(***************************************************************************)
(* Properties of the build of src/script.js.                               *)
(***************************************************************************)
\* C25 as stated: within one build no two steps among the static-asset copy,
\* the attachment copies, the page writes, the post-index write and the RSS
\* write write to the same output path.
C25_Original ==
    \A a, b \in 1..Len(written) : a # b => written[a].path # written[b].path

(***************************************************************************)
(* The table-of-contents script of src/script.js (lines 1-242), on a page  *)
(* whose aside was written by buildPostHtml.  The state is the class list  *)
(* of the .toc element, the aria-expanded attribute of the toggle, the     *)
(* script's variables tocOpenTimer and ticking, the timeouts pending in    *)
(* the window, and the geometry of the panel: maxScroll stands for         *)
(* scrollHeight - clientHeight.  Timer ids are handed out in increasing    *)
(* order; timerCount is the last one handed out.                           *)
(***************************************************************************)
Toggle(classes, name, force) == IF force THEN classes \cup {name} ELSE classes \ {name}

\* updateTocScrollHints
updateTocScrollHints(classes, max, top) ==
    LET canScroll == max > 2
        atTop == ~canScroll \/ top <= 1
        atBottom == ~canScroll \/ top >= max - 1
    IN Toggle(Toggle(Toggle(classes, "toc-can-scroll", canScroll),
                     "toc-at-top", atTop),
              "toc-at-bottom", atBottom)

\* clearOpenTimer that leaves the timeout pending
clearOpenTimerLeaving(pendingTimers, timer) == pendingTimers

\* clearOpenTimer: the timeouts left pending in the window
clearOpenTimer(pendingTimers, timer) ==
    IF timer = 0 THEN pendingTimers ELSE pendingTimers \ {timer}

\* the aside of the template (class "toc open", aria-expanded "true") after
\* the script has run: scroll-ready is added, the hints are computed
InitToc ==
    /\ ParserIdle
    /\ BuildIdle
    /\ FilesIdle
    /\ SiteIdle
    /\ ThemeIdle
    /\ maxScroll \in 0..MaxScroll
    /\ scrollTop = 0
    /\ tocClasses = updateTocScrollHints({"open", "scroll-ready"}, maxScroll, scrollTop)
    /\ ariaExpanded = TRUE
    /\ tocOpenTimer = 0
    /\ timers = {}
    /\ ticking = FALSE
    /\ timerCount = 0

\* a click on the toggle: setTocOpen(!toc.classList.contains('open'))
TocToggleClick ==
    LET open == "open" \notin tocClasses
        cleared == clearOpenTimer(timers, tocOpenTimer)
    IN /\ open => timerCount < MaxTimers
       /\ ariaExpanded' = open
       /\ IF open
          THEN /\ timerCount' = timerCount + 1
               /\ tocOpenTimer' = timerCount'
               /\ timers' = cleared \cup {timerCount'}
               /\ tocClasses' =
                    updateTocScrollHints(
                        ((tocClasses \cup {"open", "opening"}) \ {"scroll-ready"}),
                        maxScroll, scrollTop)
          ELSE /\ timerCount' = timerCount
               /\ tocOpenTimer' = 0
               /\ timers' = cleared
               /\ tocClasses' =
                    updateTocScrollHints(
                        tocClasses \ {"open", "opening", "scroll-ready"},
                        maxScroll, scrollTop)
       /\ UNCHANGED <<ticking, maxScroll, scrollTop>>
       /\ UNCHANGED <<structVars, inlineVars, fmVars, buildVars, fileVars, siteVars,
                      themeVars>>

\* a pending timeout fires: the callback given to setTimeout in setTocOpen
OpenTimerFires ==
    \E t \in timers :
        /\ timers' = timers \ {t}
        /\ tocOpenTimer' = 0
        /\ tocClasses' =
             IF "open" \notin tocClasses THEN tocClasses
             ELSE updateTocScrollHints((tocClasses \ {"opening"}) \cup {"scroll-ready"},
                                       maxScroll, scrollTop)
        /\ UNCHANGED <<ariaExpanded, ticking, timerCount, maxScroll, scrollTop>>
        /\ UNCHANGED <<structVars, inlineVars, fmVars, buildVars, fileVars, siteVars,
                       themeVars>>

\* the panel is scrolled: the 'scroll' listener of the panel
PanelScroll ==
    \E top \in 0..maxScroll :
        /\ top # scrollTop
        /\ scrollTop' = top
        /\ tocClasses' = updateTocScrollHints(tocClasses, maxScroll, top)
        /\ UNCHANGED <<ariaExpanded, tocOpenTimer, timers, ticking, timerCount, maxScroll>>
        /\ UNCHANGED <<structVars, inlineVars, fmVars, buildVars, fileVars, siteVars,
                       themeVars>>

\* the 'wheel' listener of the panel, deltaY being negative (up) or positive
PanelWheel ==
    \E up \in BOOLEAN :
        LET atTop == scrollTop <= 1
            atBottom == scrollTop >= maxScroll - 1
            pushingPastTop == up /\ atTop
            pushingPastBottom == ~up /\ atBottom
        IN /\ "open" \in tocClasses
           /\ "scroll-ready" \in tocClasses
           /\ maxScroll > 2
           /\ pushingPastTop \/ pushingPastBottom
           /\ scrollTop' = IF pushingPastTop THEN 0 ELSE maxScroll
           /\ scrollTop' # scrollTop
           /\ UNCHANGED <<tocClasses, ariaExpanded, tocOpenTimer, timers, ticking,
                          timerCount, maxScroll>>
           /\ UNCHANGED <<structVars, inlineVars, fmVars, buildVars, fileVars, siteVars,
                          themeVars>>

\* the window is resized (the panel's geometry changes, the browser keeps
\* scrollTop within it): requestUpdate
WindowResize ==
    \E max \in 0..MaxScroll :
        /\ max # maxScroll
        /\ maxScroll' = max
        /\ scrollTop' = IF scrollTop > max THEN max ELSE scrollTop
        /\ ticking' = TRUE
        /\ UNCHANGED <<tocClasses, ariaExpanded, tocOpenTimer, timers, timerCount>>
        /\ UNCHANGED <<structVars, inlineVars, fmVars, buildVars, fileVars, siteVars,
                       themeVars>>

\* the animation frame requested by requestUpdate
AnimationFrame ==
    /\ ticking
    /\ ticking' = FALSE
    /\ tocClasses' = updateTocScrollHints(tocClasses, maxScroll, scrollTop)
    /\ UNCHANGED <<ariaExpanded, tocOpenTimer, timers, timerCount, maxScroll, scrollTop>>
    /\ UNCHANGED <<structVars, inlineVars, fmVars, buildVars, fileVars, siteVars,
                   themeVars>>

NextToc ==
    \/ TocToggleClick
    \/ OpenTimerFires
    \/ PanelScroll
    \/ PanelWheel
    \/ WindowResize
    \/ AnimationFrame

SpecToc == InitToc /\ [][NextToc]_vars

(***************************************************************************)
(* Properties of the table-of-contents script.                             *)
(***************************************************************************)
\* C29: in the TOC panel, for every interleaving of toggle clicks and
\* firings of the open timer: scroll-ready implies open, opening implies
\* open, opening and scroll-ready are never both set, at most one open timer
\* is pending and one is pending only while opening is set, and
\* aria-expanded always equals the open state.
C29_TocPanel ==
    /\ "scroll-ready" \in tocClasses => "open" \in tocClasses
    /\ "opening" \in tocClasses => "open" \in tocClasses
    /\ ~("opening" \in tocClasses /\ "scroll-ready" \in tocClasses)
    /\ Cardinality(timers) <= 1
    /\ timers # {} => "opening" \in tocClasses
    /\ timers = (IF tocOpenTimer = 0 THEN {} ELSE {tocOpenTimer})
    /\ ariaExpanded = ("open" \in tocClasses)

\* the panel has been closed and opened again and its open timer is pending
C29_Witness ==
    /\ timerCount >= 2
    /\ "opening" \in tocClasses
    /\ timers = {timerCount}
    /\ ariaExpanded

(***************************************************************************)
(* The theme script src/theme.js.  storedTheme is the value kept under the *)
(* key 'theme' in localStorage ("null" when there is none), storageOk      *)
(* tells whether localStorage can be used or throws (private mode,         *)
(* disabled storage), mediaMatches is the result of the media query        *)
(* (prefers-color-scheme: dark), dataTheme the data-theme attribute of the *)
(* root element, and themeLog the history of the events of the visitor:    *)
(* each entry holds the event and the applied theme before and after it.   *)
(* A visitor arrives with no choice stored; a later page load runs the     *)
(* script again on the same storage.                                       *)
(***************************************************************************)
\* readStoredTheme
readStoredTheme == IF storageOk THEN storedTheme ELSE "null"

\* writeStoredTheme: the value stored afterwards
writeStoredTheme(theme) == IF storageOk THEN theme ELSE storedTheme

\* preferredTheme, for the stored value and the media query result given
preferredTheme(saved, matches) ==
    IF saved \in {"light", "dark"} THEN saved
    ELSE IF matches THEN "dark" ELSE "light"

Logged(event, theme) ==
    Append(themeLog, [event |-> event, before |-> dataTheme, after |-> theme])

\* the script has run on a first visit: applyTheme(preferredTheme())
InitTheme ==
    /\ ParserIdle
    /\ BuildIdle
    /\ FilesIdle
    /\ SiteIdle
    /\ TocIdle
    /\ storageOk \in BOOLEAN
    /\ storedTheme \in {"null", "auto"}
    /\ mediaMatches \in BOOLEAN
    /\ dataTheme = preferredTheme(readStoredTheme, mediaMatches)
    /\ themeLog = <<>>

\* a click on the toggle: setTheme(current === 'dark' ? 'light' : 'dark')
ThemeClick ==
    LET theme == IF dataTheme = "dark" THEN "light" ELSE "dark"
    IN /\ Len(themeLog) < MaxEvents
       /\ storedTheme' = writeStoredTheme(theme)
       /\ dataTheme' = theme
       /\ themeLog' = Logged("click", theme)
       /\ UNCHANGED <<storageOk, mediaMatches>>
       /\ UNCHANGED <<structVars, inlineVars, fmVars, buildVars, fileVars, siteVars,
                      tocVars>>

\* the OS colour scheme changes: the 'change' listener of the media query
MediaChange ==
    LET saved == readStoredTheme
        theme == IF saved \in {"light", "dark"} THEN dataTheme
                 ELSE preferredTheme(readStoredTheme, ~mediaMatches)
    IN /\ Len(themeLog) < MaxEvents
       /\ mediaMatches' = ~mediaMatches
       /\ dataTheme' = theme
       /\ themeLog' = Logged("change", theme)
       /\ UNCHANGED <<storedTheme, storageOk>>
       /\ UNCHANGED <<structVars, inlineVars, fmVars, buildVars, fileVars, siteVars,
                      tocVars>>

\* the page is loaded again: the script runs on the storage as it is
PageLoad ==
    LET theme == preferredTheme(readStoredTheme, mediaMatches)
    IN /\ Len(themeLog) < MaxEvents
       /\ dataTheme' = theme
       /\ themeLog' = Logged("load", theme)
       /\ UNCHANGED <<storedTheme, storageOk, mediaMatches>>
       /\ UNCHANGED <<structVars, inlineVars, fmVars, buildVars, fileVars, siteVars,
                      tocVars>>

NextTheme ==
    \/ ThemeClick
    \/ MediaChange
    \/ PageLoad

SpecTheme == InitTheme /\ [][NextTheme]_vars

(***************************************************************************)
(* Properties of the theme script.                                         *)
(***************************************************************************)
Clicked(n) == \E k \in 1..n : themeLog[k].event = "click"

OsTheme == IF mediaMatches THEN "dark" ELSE "light"

EveryClickFlips ==
    \A k \in 1..Len(themeLog) :
        themeLog[k].event = "click" => themeLog[k].after # themeLog[k].before

ChoiceSurvivesOsChange ==
    \A k \in 1..Len(themeLog) :
        themeLog[k].event = "change" /\ Clicked(k - 1)
        => themeLog[k].after = themeLog[k].before

FollowsOsBeforeClick == ~Clicked(Len(themeLog)) => dataTheme = OsTheme

\* C30 as stated: each click on the toggle flips the applied theme between
\* light and dark; once the visitor has chosen a theme by clicking, no later
\* OS colour-scheme change event changes the applied theme; before any click
\* the applied theme follows the OS preference.
C30_Original ==
    /\ EveryClickFlips
    /\ ChoiceSurvivesOsChange
    /\ FollowsOsBeforeClick

====
